---- MODULE Spec2Model ----
(***************************************************************************)
(* RatePerDaySystem: the dataset registry of App.tsx (loadYear, its        *)
(* in-flight map and the React state it reads through render closures),    *)
(* the Year-Mode Verifier, and the ingestion worker protocol of            *)
(* excelProcessor.ts / dataProcessor.ts.                                    *)
(***************************************************************************)
EXTENDS Integers, Sequences, FiniteSets, TLC

\* ---------------------------------------------------------------- bounds
\* Remote fetches started in one behaviour.
MaxFetches == 3
\* Callers awaiting one in-flight promise.
MaxCallers == 2
\* Dated records per calendar year, and undated records, in a Dataset the
\* verifier is applied to on its own.
MaxCount == 10
MaxUndated == 1
\* Data rows of an ingested sheet.
MaxRows == 2
\* Numerators up to this size, of both signs, and denominators up to this
\* size make the amounts calcVariance is applied to on its own.
MaxAmount == 2
MaxDenominator == 2
\* Records of the primary Dataset handed to the comparison engine.
MaxRecords == 2
\* Characters of the numeral a text handed to parseNumber is made of.
MaxChars == 5
\* Columns of a first row whose columns are resolved on their own.
MaxColumns == 4

\* ------------------------------------------------------ program constants
MinValid == 10

\* The cloud years followed, two of the console's ['2023', '2024', '2025'].
Years == {2023, 2024}
\* The calendar years the records of a verified Dataset fall in.
RecordYears == {2023, 2024, 2025}

\* null / 'none' / 0: the falsy year value of primaryYear and comparisonYear.
NoYear == 0
\* undefined: the registry holds nothing under a key.
None == [absent |-> TRUE]
\* No loadYear call was made by the step just taken.
NoCall == [year |-> NoYear, how |-> "none", after |-> "none", stored |-> FALSE]

\* ------------------------------------------------------------- datasets
\* A Dataset as far as the registry and the verifier read it: its year field
\* and, per calendar year, the number of records whose date is valid and
\* falls in that year, plus the number of records with an invalid date.
Dataset(y, c, u) == [year |-> y, counts |-> c, undated |-> u]

\* The record lists the remote store may hold for a year: enough dated
\* records for the verifier to judge, all of one calendar year w, which may
\* or may not be the year they are stored under.
RemoteCounts ==
  { [z \in Years |-> IF z = w THEN MinValid ELSE 0] : w \in Years }

\* A variant that labels the Dataset with the calendar year of its records.
fetchYearDataYearOfRecords(year) ==
  { Dataset(w, [z \in Years |-> IF z = w THEN MinValid ELSE 0], 0) : w \in Years }

\* api.fetchYearData(year): the Dataset rebuilt from the stored records; its
\* year field is the requested year whatever the records hold.
fetchYearData(year) == { Dataset(year, c, 0) : c \in RemoteCounts }

RECURSIVE SumCounts(_, _)
SumCounts(c, S) ==
  IF S = {} THEN 0
  ELSE LET z == CHOOSE x \in S : TRUE IN c[z] + SumCounts(c, S \ {z})

\* Number of records that pass the date test of verifyYearMode.
ValidCount(data) == SumCounts(data.counts, DOMAIN data.counts)

RECURSIVE ReduceModeLastWins(_, _, _)
ReduceModeLastWins(c, a, rest) ==
  IF rest = {} THEN a
  ELSE LET b == CHOOSE x \in rest : \A z \in rest : x <= z
       IN ReduceModeLastWins(c, IF c[b] >= c[a] THEN b ELSE a, rest \ {b})

\* Object.entries(counts).reduce((a, b) => b[1] > a[1] ? b : a)[0]: entries
\* come in ascending key order and a later entry wins only when strictly
\* more frequent, so the smallest of the most frequent years is returned.
RECURSIVE ReduceMode(_, _, _)
ReduceMode(c, a, rest) ==
  IF rest = {} THEN a
  ELSE LET b == CHOOSE x \in rest : \A z \in rest : x <= z
       IN ReduceMode(c, IF c[b] > c[a] THEN b ELSE a, rest \ {b})

Entries(data) == { z \in DOMAIN data.counts : data.counts[z] > 0 }

ModeYear(data) ==
  LET first == CHOOSE x \in Entries(data) : \A z \in Entries(data) : x <= z
  IN ReduceMode(data.counts, first, Entries(data) \ {first})

verifyYearMode(data, requestedYear) ==
  IF ValidCount(data) < MinValid THEN TRUE
  ELSE ModeYear(data) = requestedYear

\* ------------------------------------------------ /api/upload/finalize
\* The clients that post finalize requests, each one request at a time, and
\* the number of requests followed in all.
MaxClients == 2

MaxRequests == 4

Requests == 1 .. MaxClients

\* let retries = 3
Retries == 3

\* The hash a client's requests carry: every client uploads a file of its
\* own, and 0 stands for no hash.
HashOf(r) == r

\* A handler that has not been entered: no request body, no response. A
\* handler that has responded keeps its response, whether its save went
\* through and, if it did, the retries it had left.
IdleHandler ==
  [pc |-> "idle", year |-> NoYear, hash |-> 0, retries |-> 0,
   meta |-> None, options |-> None, saved |-> FALSE, response |-> "none"]

\* ------------------------------------------------------------------ state
VARIABLES
  isAuthenticated,   \* useState(false)
  datasetRegistry,   \* useState<DatasetRegistry>({}): year -> Dataset or None
  primaryYear,       \* useState<number | null>(null)
  comparisonYear,    \* useState<number | 'none'>('none')
  loadingYears,      \* useState<Set<number>>
  inflightRequests,  \* useRef<Map<number, Promise<void>>>: its key set
  rendered,          \* the state captured by the closures of the last render
  outstanding,       \* year -> api.fetchYearData calls not yet settled
  fetchCount,        \* remote fetches started so far
  callers,           \* year -> callers awaiting that year's in-flight promise
  openers,           \* years whose Load & Open onClick awaits loadYear
  logoutPending,     \* handleLogout awaits api.logout()
  lastOutcome,       \* year -> how that year's latest load ended
  lastCall,          \* the loadYear call made by the step just taken: its year,
                     \* its branch, how the year's previous load had ended and
                     \* whether the registry state already held the year
  seen,              \* year -> what the callers of the last settled load saw
  peers,             \* year -> years in flight when its latest load started
  cleared,           \* handleLogout emptied the registry and no fetch has been
                     \* started since
  vData,             \* verifyYearMode: the Dataset it is applied to
  vRequested,        \* verifyYearMode: requestedYear
  vPassed,           \* verifyYearMode: "unset", or its result "pass" / "warn"
  wFile,             \* parseExcelFile: the file handed to it
  wState,            \* the worker: "idle", "loading", "handled", "dead", "terminated"
  wInbox,            \* PARSE messages posted to the worker and not yet handled
  wOutbox,           \* messages posted by the worker and not yet delivered
  wErrorEvent,       \* an error event of the worker awaits worker.onerror
  wPosted,           \* self.postMessage calls made by the worker
  wSettled,          \* the resolve / reject calls made on the caller's promise
  uploadLocal,       \* uploadStatus['local']: "idle", "parsing", "success", "error"
  uploadCloud,       \* uploadStatus[String(year)]: "none", "uploading", "success", "error"
  uploadAsked,       \* confirm(...) of handleLocalFileUpload: "none", "yes", "no"
  uploadRequests,    \* the api.uploadDataset calls made: << [year, hash] >>
  metadataJson,      \* the bucket's metadata.json: None, or its generation and years
  handlers,          \* client -> the /api/upload/finalize handler serving its request
  received,          \* finalize requests received so far
  callArgs,          \* a function applied on its own: its arguments
  callResult         \* None, or [value |-> what the function returned]

registryVars == << isAuthenticated, datasetRegistry, primaryYear, comparisonYear,
                   loadingYears, inflightRequests, rendered, outstanding, fetchCount,
                   callers, openers, logoutPending, lastOutcome, lastCall, seen, peers, cleared >>

callVars == << callArgs, callResult >>

verifyVars == << vData, vRequested, vPassed, callVars >>

uploadVars == << uploadLocal, uploadCloud, uploadAsked, uploadRequests >>

workerVars == << wFile, wState, wInbox, wOutbox, wErrorEvent, wPosted, wSettled >>

ingestVars == << workerVars, uploadVars >>

serverVars == << metadataJson, handlers, received >>

vars == << registryVars, verifyVars, serverVars, ingestVars, serverVars >>

Cached(registry) == { y \in DOMAIN registry : registry[y] # None }

\* What a render captures: every handler created by it reads these values.
Snapshot(auth, registry, primary, comparison, loading) ==
  [ isAuthenticated |-> auth, registry |-> Cached(registry),
    primaryYear |-> primary, comparisonYear |-> comparison,
    loadingYears |-> loading ]

\* The screen App returns for a captured state. Dashboard dereferences
\* registry[primaryYear] while rendering, so a missing entry throws and
\* React unmounts the tree.
View(snap) ==
  IF ~snap.isAuthenticated THEN "login"
  ELSE IF snap.primaryYear = NoYear THEN "console"
  ELSE IF snap.primaryYear \notin snap.registry THEN "crashed"
  ELSE "dashboard"

RegistryInit ==
  /\ isAuthenticated = FALSE
  /\ datasetRegistry = [y \in Years |-> None]
  /\ primaryYear = NoYear
  /\ comparisonYear = NoYear
  /\ loadingYears = {}
  /\ inflightRequests = {}
  /\ rendered = Snapshot(FALSE, [y \in Years |-> None], NoYear, NoYear, {})
  /\ outstanding = [y \in Years |-> 0]
  /\ fetchCount = 0
  /\ callers = [y \in Years |-> 0]
  /\ openers = {}
  /\ logoutPending = FALSE
  /\ lastOutcome = [y \in Years |-> "none"]
  /\ lastCall = NoCall
  /\ seen = [y \in Years |-> None]
  /\ peers = [y \in Years |-> {}]
  /\ cleared = FALSE

\* The verifier has not been applied on its own.
VerifyIdle ==
  /\ vData = Dataset(NoYear, [z \in RecordYears |-> 0], 0)
  /\ vRequested = NoYear
  /\ vPassed = "unset"
  /\ callArgs = None
  /\ callResult = None

\* No file has been handed to parseExcelFile.
IngestIdle ==
  /\ wFile = [readable |-> TRUE, keys |-> << >>, rows |-> << >>]
  /\ wState = "idle"
  /\ wInbox = 0
  /\ wOutbox = << >>
  /\ wErrorEvent = FALSE
  /\ wPosted = 0
  /\ wSettled = << >>
  /\ uploadLocal = "idle"
  /\ uploadCloud = "none"
  /\ uploadAsked = "none"
  /\ uploadRequests = << >>

\* No finalize request has reached the server, and the bucket holds no
\* metadata.json.
ServerIdle ==
  /\ metadataJson = None
  /\ handlers = [r \in Requests |-> IdleHandler]
  /\ received = 0

Init == RegistryInit /\ VerifyIdle /\ IngestIdle /\ ServerIdle

\* ---------------------------------------------------------------- loadYear
NeverInFlight(inflight, year) == FALSE

\* inflightRequests.current.has(year)
InFlight(inflight, year) == year \in inflight

RegistryReplace(prev, year, data) ==
  [z \in DOMAIN prev |-> IF z = year THEN data ELSE None]

\* setDatasetRegistry(prev => ({ ...prev, [year]: data }))
RegistryInsert(prev, year, data) ==
  [z \in DOMAIN prev \cup {year} |-> IF z = year THEN data ELSE prev[z]]

OnFetchedIfVerified(prev, year, data) ==
  IF verifyYearMode(data, year) THEN [prev EXCEPT ![year] = data] ELSE prev

\* The try block after the fetch resolved: the verifier only decides
\* whether the user is alerted; the Dataset is stored either way.
OnFetched(prev, year, data) == RegistryInsert(prev, year, data)

OnFetchFailedStoresEmpty(prev, year) ==
  [prev EXCEPT ![year] = Dataset(year, [z \in Years |-> 0], 0)]

\* The catch block: console.error and alert, no registry update.
OnFetchFailed(prev, year) == prev

KeepInFlight(inflight, year) == inflight

\* The finally block: inflightRequests.current.delete(year)
ClearInFlight(inflight, year) == inflight \ {year}

\* How the promise loadYear hands out settles: the async body catches the
\* fetch error, so the promise is fulfilled whether or not the fetch threw.
Settlement(threw) == "fulfilled"

\* Which branch loadYear(year) takes, read through the calling render.
Branch(year) ==
  IF year \in rendered.registry THEN "cached"
  ELSE IF InFlight(inflightRequests, year) THEN "joined"
  ELSE "started"

\* loadYear(year) up to its first await.
loadYear(year) ==
  LET how == Branch(year) IN
  /\ how = "started" => fetchCount < MaxFetches
  /\ how # "cached" => callers[year] < MaxCallers
  /\ lastCall' = [year |-> year, how |-> how, after |-> lastOutcome[year],
                  stored |-> datasetRegistry[year] # None]
  /\ IF how = "started"
     THEN /\ loadingYears' = loadingYears \cup {year}
          /\ inflightRequests' = inflightRequests \cup {year}
          /\ outstanding' = [outstanding EXCEPT ![year] = @ + 1]
          /\ fetchCount' = fetchCount + 1
          /\ callers' = [callers EXCEPT ![year] = @ + 1]
          /\ lastOutcome' = [lastOutcome EXCEPT ![year] = "pending"]
          /\ peers' = [peers EXCEPT ![year] = inflightRequests \ {year}]
          /\ cleared' = FALSE
     ELSE /\ callers' = [callers EXCEPT ![year] = IF how = "joined" THEN @ + 1 ELSE @]
          /\ UNCHANGED << loadingYears, inflightRequests, outstanding, fetchCount,
                          lastOutcome, peers, cleared >>

\* The continuation every awaiting caller of year's promise runs, and the
\* bookkeeping of the finally block.
Settle(year, threw) ==
  /\ UNCHANGED << verifyVars, ingestVars, serverVars >>
  /\ loadingYears' = loadingYears \ {year}
  /\ inflightRequests' = ClearInFlight(inflightRequests, year)
  /\ outstanding' = [outstanding EXCEPT ![year] = @ - 1]
  /\ callers' = [callers EXCEPT ![year] = 0]
  /\ seen' = [seen EXCEPT ![year] = [callers |-> callers[year],
                                     settled |-> Settlement(threw)]]
  /\ openers' = openers \ {year}
  /\ primaryYear' = IF year \in openers THEN year ELSE primaryYear
  /\ lastCall' = NoCall
  /\ UNCHANGED << isAuthenticated, comparisonYear, rendered, fetchCount,
                  logoutPending, peers, cleared >>

\* api.fetchYearData resolved with data.
FetchSucceed(year) ==
  /\ outstanding[year] > 0
  /\ \E data \in fetchYearData(year) :
       /\ datasetRegistry' = OnFetched(datasetRegistry, year, data)
       /\ lastOutcome' = [lastOutcome EXCEPT ![year] =
                            IF verifyYearMode(data, year) THEN "ok" ELSE "warned"]
  /\ Settle(year, FALSE)

\* api.fetchYearData rejected.
FetchFail(year) ==
  /\ outstanding[year] > 0
  /\ datasetRegistry' = OnFetchFailed(datasetRegistry, year)
  /\ lastOutcome' = [lastOutcome EXCEPT ![year] = "failed"]
  /\ Settle(year, TRUE)

\* ---------------------------------------------------------------- handlers
\* React commits a render: new closures capture the current state. State set
\* from a promise continuation is rendered by a task React schedules, so an
\* input event may be handled before it.
Render ==
  /\ UNCHANGED << verifyVars, ingestVars, serverVars >>
  /\ View(rendered) # "crashed"
  /\ rendered' = Snapshot(isAuthenticated, datasetRegistry, primaryYear,
                          comparisonYear, loadingYears)
  /\ rendered' # rendered
  /\ lastCall' = NoCall
  /\ UNCHANGED << isAuthenticated, datasetRegistry, primaryYear, comparisonYear,
                  loadingYears, inflightRequests, outstanding, fetchCount, callers,
                  openers, logoutPending, lastOutcome, seen, peers, cleared >>

\* State set while an input event is being handled is rendered before the
\* next event is dispatched.
SyncRender ==
  rendered' = Snapshot(isAuthenticated', datasetRegistry', primaryYear',
                       comparisonYear', loadingYears')

\* checkAuth / handleLogin succeeded.
checkAuth ==
  /\ UNCHANGED << verifyVars, ingestVars, serverVars >>
  /\ View(rendered) = "login"
  /\ ~isAuthenticated
  /\ isAuthenticated' = TRUE
  /\ lastCall' = NoCall
  /\ UNCHANGED << datasetRegistry, primaryYear, comparisonYear, loadingYears,
                  inflightRequests, rendered, outstanding, fetchCount, callers,
                  openers, logoutPending, lastOutcome, seen, peers, cleared >>

\* handleLogout up to await api.logout(); one request is followed at a time.
handleLogout ==
  /\ UNCHANGED << verifyVars, ingestVars, serverVars >>
  /\ View(rendered) = "console"
  /\ ~logoutPending
  /\ logoutPending' = TRUE
  /\ lastCall' = NoCall
  /\ UNCHANGED << isAuthenticated, datasetRegistry, primaryYear, comparisonYear,
                  loadingYears, inflightRequests, rendered, outstanding, fetchCount,
                  callers, openers, lastOutcome, seen, peers, cleared >>

\* handleLogout after api.logout() returned.
LogoutDone ==
  /\ UNCHANGED << verifyVars, ingestVars, serverVars >>
  /\ logoutPending
  /\ logoutPending' = FALSE
  /\ isAuthenticated' = FALSE
  /\ datasetRegistry' = [y \in Years |-> None]
  /\ primaryYear' = NoYear
  /\ comparisonYear' = NoYear
  /\ lastOutcome' = [y \in Years |->
                       IF lastOutcome[y] = "pending" THEN "pending" ELSE "none"]
  /\ lastCall' = NoCall
  /\ cleared' = TRUE
  /\ UNCHANGED << loadingYears, inflightRequests, rendered, outstanding, fetchCount,
                  callers, openers, seen, peers >>

\* The console's Load & Open / Open button of a cloud year:
\* if (!isLoaded) await loadYear(year); setPrimaryYear(year)
LoadAndOpen(year) ==
  /\ UNCHANGED << verifyVars, ingestVars, serverVars >>
  /\ View(rendered) = "console"
  /\ year \notin rendered.loadingYears
  /\ IF year \in rendered.registry
     THEN /\ primaryYear' = year
          /\ lastCall' = NoCall
          /\ UNCHANGED << loadingYears, inflightRequests, outstanding, fetchCount,
                          callers, lastOutcome, peers, cleared, openers >>
     ELSE /\ loadYear(year)
          /\ openers' = openers \cup {year}
          /\ UNCHANGED primaryYear
  /\ UNCHANGED << isAuthenticated, datasetRegistry, comparisonYear,
                  logoutPending, seen >>
  /\ SyncRender

\* Dashboard.handlePrimaryYearChange
handlePrimaryYearChange(year) ==
  /\ UNCHANGED << verifyVars, ingestVars, serverVars >>
  /\ View(rendered) = "dashboard"
  /\ year # rendered.primaryYear
  /\ primaryYear' = year
  /\ IF year \in rendered.registry
     THEN /\ lastCall' = NoCall
          /\ UNCHANGED << loadingYears, inflightRequests, outstanding, fetchCount,
                          callers, lastOutcome, peers, cleared >>
     ELSE loadYear(year)
  /\ UNCHANGED << isAuthenticated, datasetRegistry, comparisonYear,
                  openers, logoutPending, seen >>
  /\ SyncRender

\* Dashboard.handleComparisonYearChange
handleComparisonYearChange(val) ==
  /\ UNCHANGED << verifyVars, ingestVars, serverVars >>
  /\ View(rendered) = "dashboard"
  /\ val # rendered.primaryYear
  /\ val # rendered.comparisonYear
  /\ comparisonYear' = val
  /\ IF val = NoYear \/ val \in rendered.registry
     THEN /\ lastCall' = NoCall
          /\ UNCHANGED << loadingYears, inflightRequests, outstanding, fetchCount,
                          callers, lastOutcome, peers, cleared >>
     ELSE loadYear(val)
  /\ UNCHANGED << isAuthenticated, datasetRegistry, primaryYear,
                  openers, logoutPending, seen >>
  /\ SyncRender

\* Dashboard's back button: onReset
onReset ==
  /\ UNCHANGED << verifyVars, ingestVars, serverVars >>
  /\ View(rendered) = "dashboard"
  /\ primaryYear' = NoYear
  /\ comparisonYear' = NoYear
  /\ lastCall' = NoCall
  /\ UNCHANGED << isAuthenticated, datasetRegistry, loadingYears, inflightRequests,
                  outstanding, fetchCount, callers, openers,
                  logoutPending, lastOutcome, seen, peers, cleared >>
  /\ SyncRender

Next ==
  \/ Render
  \/ checkAuth
  \/ handleLogout
  \/ LogoutDone
  \/ \E year \in Years : LoadAndOpen(year)
  \/ \E year \in Years : handlePrimaryYearChange(year)
  \/ \E val \in Years \cup {NoYear} : handleComparisonYearChange(val)
  \/ onReset
  \/ \E year \in Years : FetchSucceed(year)
  \/ \E year \in Years : FetchFail(year)

Spec == Init /\ [][Next]_vars

\* The remote store answers every fetch: the promise of api.fetchYearData
\* settles, and its continuation runs as a microtask.
FairSpec == Spec /\ \A year \in Years : WF_vars(FetchSucceed(year) \/ FetchFail(year))

\* ------------------------------------------------------------ ingestion
\* Text is a sequence of one-character strings.
LowerCaseOf ==
  "A" :> "a" @@ "B" :> "b" @@ "C" :> "c" @@ "D" :> "d" @@ "E" :> "e" @@ "F" :> "f" @@
  "G" :> "g" @@ "H" :> "h" @@ "I" :> "i" @@ "J" :> "j" @@ "K" :> "k" @@ "L" :> "l" @@
  "M" :> "m" @@ "N" :> "n" @@ "O" :> "o" @@ "P" :> "p" @@ "Q" :> "q" @@ "R" :> "r" @@
  "S" :> "s" @@ "T" :> "t" @@ "U" :> "u" @@ "V" :> "v" @@ "W" :> "w" @@ "X" :> "x" @@
  "Y" :> "y" @@ "Z" :> "z"

Lower(ch) == IF ch \in DOMAIN LowerCaseOf THEN LowerCaseOf[ch] ELSE ch

toLowerCase(str) == [i \in 1 .. Len(str) |-> Lower(str[i])]

RECURSIVE trimStart(_)
trimStart(str) ==
  IF str # << >> /\ Head(str) = " " THEN trimStart(Tail(str)) ELSE str

RECURSIVE trimEnd(_)
trimEnd(str) ==
  IF str # << >> /\ str[Len(str)] = " " THEN trimEnd(SubSeq(str, 1, Len(str) - 1)) ELSE str

trim(str) == trimEnd(trimStart(str))

\* String.prototype.includes
includes(str, part) ==
  \E i \in 0 .. (Len(str) - Len(part)) : SubSeq(str, i + 1, i + Len(part)) = part

\* undefined, and the empty key: both are falsy wherever a column key is tested.
NoKey == << >>

\* key.toLowerCase().trim() === candidate
\*   || key.toLowerCase().trim().includes(candidate)
Matches(key, candidate) ==
  \E name \in { trim(toLowerCase(key)) } : name = candidate \/ includes(name, candidate)

\* keys.find(key => ...): the first key that matches, or undefined.
findKey(keys, candidate) ==
  IF \E i \in DOMAIN keys : Matches(keys[i], candidate)
  THEN keys[CHOOSE i \in DOMAIN keys :
              /\ Matches(keys[i], candidate)
              /\ \A j \in 1 .. (i - 1) : ~Matches(keys[j], candidate)]
  ELSE NoKey

findColumnKeyInHeaderOrder(keys, candidates) ==
  IF \E i \in DOMAIN keys : \E c \in DOMAIN candidates : Matches(keys[i], candidates[c])
  THEN keys[CHOOSE i \in DOMAIN keys :
              /\ \E c \in DOMAIN candidates : Matches(keys[i], candidates[c])
              /\ \A j \in 1 .. (i - 1) :
                   \A c \in DOMAIN candidates : ~Matches(keys[j], candidates[c])]
  ELSE NoKey

\* findColumnKey(row, candidates), keys being Object.keys(row): the key found
\* for the first candidate that finds one, or undefined.
findColumnKey(keys, candidates) ==
  IF \E c \in DOMAIN candidates : findKey(keys, candidates[c]) # NoKey
  THEN findKey(keys, candidates[CHOOSE c \in DOMAIN candidates :
                                  /\ findKey(keys, candidates[c]) # NoKey
                                  /\ \A d \in 1 .. (c - 1) : findKey(keys, candidates[d]) = NoKey])
  ELSE NoKey

StationCandidates ==
  << << "s", "t", "a", "t", "i", "o", "n" >>,
     << "c", "h", "e", "c", "k", "-", "o", "u", "t", " ", "s", "t", "a", "t", "i", "o", "n" >>,
     << "c", "h", "e", "c", "k", "o", "u", "t", " ", "s", "t", "a", "t", "i", "o", "n" >> >>

DateCandidates ==
  << << "c", "h", "e", "c", "k", "-", "o", "u", "t", " ", "d", "a", "t", "e" >>,
     << "c", "h", "e", "c", "k", "o", "u", "t", " ", "d", "a", "t", "e" >>,
     << "d", "a", "t", "e" >> >>

DaysCandidates ==
  << << "d", "a", "y", "s" >>,
     << "d", "u", "r", "a", "t", "i", "o", "n" >> >>

ChargeCandidates ==
  << << "r", "e", "n", "t", "a", "l", " ", "c", "h", "a", "r", "g", "e" >>,
     << "a", "m", "o", "u", "n", "t" >>,
     << "c", "h", "a", "r", "g", "e" >>,
     << "p", "r", "i", "c", "e" >> >>

GroupCandidates ==
  << << "c", "h", "a", "r", "g", "e", "d", " ", "g", "r", "o", "u", "p" >>,
     << "c", "a", "r", " ", "g", "r", "o", "u", "p" >>,
     << "g", "r", "o", "u", "p" >>,
     << "c", "a", "t", "e", "g", "o", "r", "y" >> >>

\* Cells as XLSX.utils.sheet_to_json hands them over with cellDates and raw
\* set: text, a native number, or a native (valid) Date; '' where empty.
TextCell(chars) == [t |-> "text", chars |-> chars]
NumCell(n) == [t |-> "num", n |-> n]
DateCell(y, m, d) == [t |-> "date", y |-> y, m |-> m, d |-> d]
Blank == TextCell(<< >>)

\* JavaScript falsiness of a cell value: '' and 0.
Falsy(cell) ==
  \/ cell.t = "text" /\ cell.chars = << >>
  \/ cell.t = "num" /\ cell.n = 0

Digit(n) == CASE n = 0 -> "0" [] n = 1 -> "1" [] n = 2 -> "2" [] n = 3 -> "3"
              [] n = 4 -> "4" [] n = 5 -> "5" [] n = 6 -> "6" [] n = 7 -> "7"
              [] n = 8 -> "8" [] n = 9 -> "9"

RECURSIVE Digits(_)
Digits(n) == IF n < 10 THEN << Digit(n) >> ELSE Digits(n \div 10) \o << Digit(n % 10) >>

\* String(value) of a text or of a number cell.
String(cell) ==
  CASE cell.t = "text" -> cell.chars
    [] cell.t = "num" -> IF cell.n < 0 THEN << "-" >> \o Digits(0 - cell.n) ELSE Digits(cell.n)

Unknown == << "U", "n", "k", "n", "o", "w", "n" >>

NullDate == [t |-> "null"]

\* JavaScript null.
Null == [t |-> "null"]

DigitChars == { "0", "1", "2", "3", "4", "5", "6", "7", "8", "9" }

NoDigit(chars) == \A i \in DOMAIN chars : chars[i] \notin DigitChars

\* ------------------------------------------------------------ numbers
\* A JavaScript number is kept as an exact fraction n/d in lowest terms with
\* d > 0; d = 0 stands for the values a division by zero gives: Infinity
\* (n = 1), -Infinity (n = -1) and NaN (n = 0). Rounding is not modelled.
Abs(n) == IF n < 0 THEN 0 - n ELSE n

Sign(n) == IF n < 0 THEN 0 - 1 ELSE IF n > 0 THEN 1 ELSE 0

RECURSIVE Gcd(_, _)
Gcd(a, b) == IF b = 0 THEN a ELSE Gcd(b, a % b)

Num(n, d) ==
  IF d = 0 THEN [n |-> Sign(n), d |-> 0]
  ELSE [n |-> (Sign(d) * n) \div Gcd(Abs(n), Abs(d)), d |-> Abs(d) \div Gcd(Abs(n), Abs(d))]

Whole(n) == Num(n, 1)

Zero == Whole(0)

\* Number.isFinite
Finite(x) == x.d > 0

\* x + y, x - y, x / y, -x, x < y, x <= y
Add(x, y) == Num(x.n * y.d + y.n * x.d, x.d * y.d)

Sub(x, y) == Num(x.n * y.d - y.n * x.d, x.d * y.d)

Div(x, y) == Num(x.n * y.d, x.d * y.n)

Neg(x) == [n |-> 0 - x.n, d |-> x.d]

Lt(x, y) == Finite(x) /\ Finite(y) /\ x.n * y.d < y.n * x.d

Leq(x, y) == Finite(x) /\ Finite(y) /\ x.n * y.d <= y.n * x.d

\* NaN and isNaN
NaN == [n |-> 0, d |-> 0]

isNaN(x) == x = NaN

\* str.startsWith(ch), str.endsWith(ch), str.slice(1, -1)
startsWith(str, ch) == Len(str) > 0 /\ str[1] = ch

endsWith(str, ch) == Len(str) > 0 /\ str[Len(str)] = ch

sliceInner(str) == IF Len(str) < 2 THEN << >> ELSE SubSeq(str, 2, Len(str) - 1)

\* The characters of the class of currency signs, letters and white space
\* that texts are drawn with: the dollar sign, the letters and the blank.
StrippedChars ==
  { "$", " " } \cup DOMAIN LowerCaseOf \cup { LowerCaseOf[ch] : ch \in DOMAIN LowerCaseOf }

\* str.replace(...) of that class by nothing.
stripSymbols(str) == SelectSeq(str, LAMBDA ch : ch \notin StrippedChars)

\* str.replace(/\./g, '')
removeDots(str) == SelectSeq(str, LAMBDA ch : ch # ".")

\* The position of the first ch in str, 0 when there is none.
indexOf(str, ch) ==
  IF \E i \in DOMAIN str : str[i] = ch
  THEN CHOOSE i \in DOMAIN str : str[i] = ch /\ \A j \in 1 .. i - 1 : str[j] # ch
  ELSE 0

\* str.replace(',', '.'): the first comma only.
replaceFirstComma(str) ==
  IF indexOf(str, ",") = 0 THEN str ELSE [str EXCEPT ![indexOf(str, ",")] = "."]

\* str.split('.')
RECURSIVE split(_)
split(str) ==
  IF indexOf(str, ".") = 0 THEN << str >>
  ELSE << SubSeq(str, 1, indexOf(str, ".") - 1) >>
         \o split(SubSeq(str, indexOf(str, ".") + 1, Len(str)))

\* The number a run of digits stands for.
RECURSIVE NumeralValue(_)
NumeralValue(digits) ==
  IF digits = << >> THEN 0
  ELSE 10 * NumeralValue(SubSeq(digits, 1, Len(digits) - 1))
       + (CHOOSE n \in 0 .. 9 : Digit(n) = digits[Len(digits)])

RECURSIVE Power10(_)
Power10(k) == IF k = 0 THEN 1 ELSE 10 * Power10(k - 1)

\* The length of the longest run of digits str begins with.
RECURSIVE DigitRun(_)
DigitRun(str) ==
  IF str # << >> /\ Head(str) \in DigitChars THEN 1 + DigitRun(Tail(str)) ELSE 0

\* parseFloat of an unsigned text: the longest prefix that is a decimal
\* literal, digits with an optional point and further digits, or NaN when
\* no digit is read. No exponent or 'Infinity' can follow, letters having
\* been stripped.
parseUnsigned(str) ==
  LET whole == DigitRun(str)
      rest == SubSeq(str, whole + 1, Len(str))
      fraction == IF startsWith(rest, ".") THEN DigitRun(Tail(rest)) ELSE 0
  IN IF whole + fraction = 0 THEN NaN
     ELSE Num(NumeralValue(SubSeq(str, 1, whole) \o SubSeq(rest, 2, fraction + 1)),
              Power10(fraction))

\* parseFloat(str), str holding no white space.
parseFloat(str) ==
  IF startsWith(str, "-") THEN Neg(parseUnsigned(Tail(str)))
  ELSE IF startsWith(str, "+") THEN parseUnsigned(Tail(str))
  ELSE parseUnsigned(str)

resolveSeparatorsDotIsDecimal(str) ==
  IF includes(str, << "," >>) THEN replaceFirstComma(removeDots(str))
  ELSE IF includes(str, << "." >>)
       THEN IF Len(split(str)) > 2 THEN removeDots(str)
            ELSE str
  ELSE str

\* The if / else if of parseNumber that settles what commas and dots mean.
resolveSeparators(str) ==
  IF includes(str, << "," >>) THEN replaceFirstComma(removeDots(str))
  ELSE IF includes(str, << "." >>)
       THEN IF Len(split(str)) > 2 THEN removeDots(str)
            ELSE IF Len(split(str)) = 2 /\ Len(split(str)[2]) = 3 THEN removeDots(str)
            ELSE str
  ELSE str

\* parseNumber from `let str = String(val).trim()` on.
parseNumberText(str) ==
  IF str = << >> THEN Zero
  ELSE LET isNegative == startsWith(str, "(") /\ endsWith(str, ")")
           num == parseFloat(resolveSeparators(stripSymbols(
                    IF isNegative THEN sliceInner(str) ELSE str)))
       IN IF isNaN(num) THEN Zero ELSE IF isNegative THEN Neg(num) ELSE num

\* parseNumber(val)
parseNumber(val) ==
  CASE val.t = "num" -> Whole(val.n)
    [] val.t # "num" /\ Falsy(val) -> Zero
    [] val.t = "text" /\ ~Falsy(val) -> parseNumberText(trim(String(val)))

\* ------------------------------------------------------------- dates
\* The days of month m (1..12) of year y.
isLeapYear(y) == (y % 4 = 0 /\ y % 100 # 0) \/ y % 400 = 0

daysInMonth(y, m) ==
  IF m = 2 THEN (IF isLeapYear(y) THEN 29 ELSE 28)
  ELSE IF m \in { 4, 6, 9, 11 } THEN 30 ELSE 31

\* The calendar date that lies day - 1 days after the first of month m of
\* year y: days beyond the month's end run into the following months, days
\* before its first into the preceding ones.
RECURSIVE rollDays(_, _, _)
rollDays(y, m, day) ==
  IF day < 1
  THEN IF m = 1 THEN rollDays(y - 1, 12, day + 31)
       ELSE rollDays(y, m - 1, day + daysInMonth(y, m - 1))
  ELSE IF day > daysInMonth(y, m)
  THEN IF m = 12 THEN rollDays(y + 1, 1, day - 31)
       ELSE rollDays(y, m + 1, day - daysInMonth(y, m))
  ELSE DateCell(y, m, day)

\* new Date(year, monthIndex, day) for a year of 100 or more: a month index
\* outside 0..11 moves the year, a day outside the month moves the month.
\* The time value is never NaN for integer arguments.
newDate(year, monthIndex, day) ==
  rollDays(year + (monthIndex \div 12), (monthIndex % 12) + 1, day)

DateSeparators == { "/", "-", "." }

\* str.match(/^(\d{1,2})[\/\-\.](\d{1,2})[\/\-\.](\d{4})/): the three groups,
\* or Null when the text does not begin so.
dmyMatch(str) ==
  LET d == DigitRun(str)
      afterDay == SubSeq(str, d + 2, Len(str))
      m == DigitRun(afterDay)
      afterMonth == SubSeq(afterDay, m + 2, Len(afterDay))
  IN IF /\ d \in 1 .. 2 /\ Len(str) > d /\ str[d + 1] \in DateSeparators
        /\ m \in 1 .. 2 /\ Len(afterDay) > m /\ afterDay[m + 1] \in DateSeparators
        /\ DigitRun(afterMonth) >= 4
     THEN [d |-> SubSeq(str, 1, d), m |-> SubSeq(afterDay, 1, m),
           y |-> SubSeq(afterMonth, 1, 4)]
     ELSE Null

\* parseDate from `const str = String(val).trim()` on, for text that begins
\* with the d/m/y pattern and for text without a digit, which new Date(str)
\* does not read as a date. parseInt of a run of digits is its value.
parseDateText(str) ==
  IF dmyMatch(str) # Null
  THEN newDate(NumeralValue(dmyMatch(str).y), NumeralValue(dmyMatch(str).m) - 1,
               NumeralValue(dmyMatch(str).d))
  ELSE CHOOSE date \in { NullDate } : NoDigit(str)

\* parseDate(val)
parseDate(val) ==
  CASE val.t = "date" -> val
    [] Falsy(val) -> NullDate
    [] val.t = "text" /\ ~Falsy(val) -> parseDateText(trim(String(val)))

EmptyData ==
  [records |-> << >>, stations |-> {}, groups |-> {}, months |-> {},
   totalRecords |-> 0, year |-> 0]

RowRecordKeepsZeroDays(row, index, stationKey, dateKey, daysKey, chargeKey, groupKey) ==
  IF stationKey = NoKey \/ dateKey = NoKey \/ daysKey = NoKey \/ chargeKey = NoKey
  THEN NullDate
  ELSE
    LET station == trim(IF Falsy(row[stationKey]) THEN << >> ELSE String(row[stationKey]))
        date == parseDate(row[dateKey])
        days == parseNumber(row[daysKey])
        charge == parseNumber(row[chargeKey])
        group == IF groupKey # NoKey
                 THEN trim(IF Falsy(row[groupKey]) THEN Unknown ELSE String(row[groupKey]))
                 ELSE Unknown
    IN IF station = << >> \/ date = NullDate \/ Lt(days, Zero) THEN NullDate
       ELSE [id |-> index, station |-> station,
             stationKey |-> trim(toLowerCase(station)),
             group |-> group, groupKey |-> trim(toLowerCase(group)),
             date |-> date, monthKey |-> << date.y, date.m >>, day |-> date.d,
             days |-> days, charge |-> charge, year |-> date.y]

\* The body of data.forEach((row, index) => ...): the record the row yields,
\* or NullDate when the row returns early.
RowRecord(row, index, stationKey, dateKey, daysKey, chargeKey, groupKey) ==
  IF stationKey = NoKey \/ dateKey = NoKey \/ daysKey = NoKey \/ chargeKey = NoKey
  THEN NullDate
  ELSE
    LET station == trim(IF Falsy(row[stationKey]) THEN << >> ELSE String(row[stationKey]))
        date == parseDate(row[dateKey])
        days == parseNumber(row[daysKey])
        charge == parseNumber(row[chargeKey])
        group == IF groupKey # NoKey
                 THEN trim(IF Falsy(row[groupKey]) THEN Unknown ELSE String(row[groupKey]))
                 ELSE Unknown
    IN IF station = << >> \/ date = NullDate \/ Leq(days, Zero) THEN NullDate
       ELSE [id |-> index, station |-> station,
             stationKey |-> trim(toLowerCase(station)),
             group |-> group, groupKey |-> trim(toLowerCase(group)),
             date |-> date, monthKey |-> << date.y, date.m >>, day |-> date.d,
             days |-> days, charge |-> charge, year |-> date.y]

RECURSIVE AcceptedRecords(_, _, _, _, _, _, _)
AcceptedRecords(rows, index, stationKey, dateKey, daysKey, chargeKey, groupKey) ==
  IF index >= Len(rows) THEN << >>
  ELSE LET r == RowRecord(rows[index + 1], index, stationKey, dateKey, daysKey,
                          chargeKey, groupKey)
           rest == AcceptedRecords(rows, index + 1, stationKey, dateKey, daysKey,
                                   chargeKey, groupKey)
       IN IF r = NullDate THEN rest ELSE << r >> \o rest

\* processRawData(data); keys is Object.keys(data[0]). The column keys and the
\* records are bound once, as the function's constants are.
processRawData(keys, data) ==
  IF Len(data) = 0 THEN EmptyData
  ELSE CHOOSE processed \in
         { [records |-> records,
            stations |-> { records[i].station : i \in 1 .. Len(records) },
            groups |-> { records[i].group : i \in 1 .. Len(records) },
            months |-> { records[i].monthKey : i \in 1 .. Len(records) },
            totalRecords |-> Len(records),
            \* if (index === 0) dataYear = year
            year |-> IF records # << >> /\ records[1].id = 0 THEN records[1].year ELSE 0] :
           records \in
             { AcceptedRecords(data, 0, stationKey, dateKey, daysKey, chargeKey, groupKey) :
                 stationKey \in { findColumnKey(keys, StationCandidates) },
                 dateKey \in { findColumnKey(keys, DateCandidates) },
                 daysKey \in { findColumnKey(keys, DaysCandidates) },
                 chargeKey \in { findColumnKey(keys, ChargeCandidates) },
                 groupKey \in { findColumnKey(keys, GroupCandidates) } } } : TRUE

\* ------------------------------------------------------ the content hash
\* The text of a whole number, in two places at least.
padStart2(n) == IF n < 10 THEN << "0" >> \o Digits(n) ELSE Digits(n)

\* The fewest decimal places, from k on, in which the denominator d divides
\* a power of ten. The numbers of a record are decimals.
RECURSIVE decimalPlaces(_, _)
decimalPlaces(d, k) == IF Power10(k) % d = 0 THEN k ELSE decimalPlaces(d, k + 1)

\* The last k digits of n, with leading zeros.
RECURSIVE lastDigits(_, _)
lastDigits(n, k) == IF k = 0 THEN << >> ELSE lastDigits(n \div 10, k - 1) \o << Digit(n % 10) >>

\* JSON.stringify of a finite number: sign, whole part and, for a number
\* that is not whole, the point and the decimal places.
numberToJSON(x) ==
  LET places == decimalPlaces(x.d, 0)
      scaled == (Abs(x.n) * Power10(places)) \div x.d
  IN (IF x.n < 0 THEN << "-" >> ELSE << >>)
       \o Digits(scaled \div Power10(places))
       \o (IF places = 0 THEN << >> ELSE << "." >> \o lastDigits(scaled, places))

\* JSON.stringify of a string: in double quotes, a quote or backslash inside
\* it preceded by a backslash. No control character is drawn.
RECURSIVE escaped(_)
escaped(str) ==
  IF str = << >> THEN << >>
  ELSE (IF Head(str) \in { "\"", "\\" } THEN << "\\", Head(str) >> ELSE << Head(str) >>)
         \o escaped(Tail(str))

stringToJSON(str) == << "\"" >> \o escaped(str) \o << "\"" >>

\* `${year}-${paddedMonth}`
monthKeyText(monthKey) == Digits(monthKey[1]) \o << "-" >> \o padStart2(monthKey[2])

\* Date.prototype.toJSON of a date at midnight, universal time.
dateToJSON(date) ==
  << "\"" >> \o Digits(date.y) \o << "-" >> \o padStart2(date.m) \o << "-" >>
    \o padStart2(date.d) \o << "T", "0", "0", ":", "0", "0", ":", "0", "0", ".", "0", "0", "0", "Z" >> \o << "\"" >>

recordToJSONWithoutCharge(r) ==
  << "{", "\"", "i", "d", "\"", ":" >> \o Digits(r.id)
    \o << ",", "\"", "s", "t", "a", "t", "i", "o", "n", "\"", ":" >> \o stringToJSON(r.station)
    \o << ",", "\"", "s", "t", "a", "t", "i", "o", "n", "K", "e", "y", "\"", ":" >> \o stringToJSON(r.stationKey)
    \o << ",", "\"", "g", "r", "o", "u", "p", "\"", ":" >> \o stringToJSON(r.group)
    \o << ",", "\"", "g", "r", "o", "u", "p", "K", "e", "y", "\"", ":" >> \o stringToJSON(r.groupKey)
    \o << ",", "\"", "d", "a", "t", "e", "\"", ":" >> \o dateToJSON(r.date)
    \o << ",", "\"", "m", "o", "n", "t", "h", "K", "e", "y", "\"", ":" >> \o stringToJSON(monthKeyText(r.monthKey))
    \o << ",", "\"", "d", "a", "y", "\"", ":" >> \o Digits(r.day)
    \o << ",", "\"", "d", "a", "y", "s", "\"", ":" >> \o numberToJSON(r.days)
    \o << ",", "\"", "y", "e", "a", "r", "\"", ":" >> \o Digits(r.year) \o << "}" >>

\* JSON.stringify of one record: its fields in the order of the object
\* literal. displayDate, which the record here does not carry, is a function
\* of date.
recordToJSON(r) ==
  << "{", "\"", "i", "d", "\"", ":" >> \o Digits(r.id)
    \o << ",", "\"", "s", "t", "a", "t", "i", "o", "n", "\"", ":" >> \o stringToJSON(r.station)
    \o << ",", "\"", "s", "t", "a", "t", "i", "o", "n", "K", "e", "y", "\"", ":" >> \o stringToJSON(r.stationKey)
    \o << ",", "\"", "g", "r", "o", "u", "p", "\"", ":" >> \o stringToJSON(r.group)
    \o << ",", "\"", "g", "r", "o", "u", "p", "K", "e", "y", "\"", ":" >> \o stringToJSON(r.groupKey)
    \o << ",", "\"", "d", "a", "t", "e", "\"", ":" >> \o dateToJSON(r.date)
    \o << ",", "\"", "m", "o", "n", "t", "h", "K", "e", "y", "\"", ":" >> \o stringToJSON(monthKeyText(r.monthKey))
    \o << ",", "\"", "d", "a", "y", "\"", ":" >> \o Digits(r.day)
    \o << ",", "\"", "d", "a", "y", "s", "\"", ":" >> \o numberToJSON(r.days)
    \o << ",", "\"", "c", "h", "a", "r", "g", "e", "\"", ":" >> \o numberToJSON(r.charge)
    \o << ",", "\"", "y", "e", "a", "r", "\"", ":" >> \o Digits(r.year) \o << "}" >>

\* The records' texts from the k-th on, with commas between them.
RECURSIVE joinRecords(_, _)
joinRecords(records, k) ==
  IF k > Len(records) THEN << >>
  ELSE (IF k > 1 THEN << "," >> ELSE << >>) \o recordToJSON(records[k])
         \o joinRecords(records, k + 1)

\* JSON.stringify(processed.records)
JSONstringify(records) == << "[" >> \o joinRecords(records, 1) \o << "]" >>

\* crypto.subtle.digest('SHA-256', ...) in hexadecimal, taken as collision
\* free: the digest stands for the text digested.
digestHex(text) == << "sha256", text >>

\* The hash self.onmessage computes of the records.
sha256Hex(records) == digestHex(JSONstringify(records))

\* ------------------------------------------- parseExcelFile and its worker
\* The column names a sheet's first row may carry, in sheet order.
ColumnPool ==
  << << "S", "t", "a", "t", "i", "o", "n" >>,
     << "D", "a", "t", "e" >>,
     << "D", "a", "y", "s" >>,
     << "C", "h", "a", "r", "g", "e" >>,
     << "G", "r", "o", "u", "p" >> >>

\* The pool's names but the i-th; all of them for i = 0.
Without(pool, i) == SelectSeq(pool, LAMBDA name : i = 0 \/ name # pool[i])

\* The first row has every column, or every column but one.
Headers == { Without(ColumnPool, i) : i \in 0 .. Len(ColumnPool) }

\* The values drawn for the cells of a column: a blank station or a zero
\* duration has the row skipped, and the dates fall in an archivable year
\* and in one that is not.
ColumnCells(name) ==
  CASE name = ColumnPool[1] -> { Blank, TextCell(<< "A" >>) }
    [] name = ColumnPool[2] -> { DateCell(2024, 1, 15), DateCell(2022, 12, 31) }
    [] name = ColumnPool[3] -> { NumCell(0), NumCell(2) }
    [] name = ColumnPool[4] -> { NumCell(100) }
    [] name = ColumnPool[5] -> { TextCell(<< "X" >>) }

Range(seq) == { seq[i] : i \in 1 .. Len(seq) }

RowsOf(keys) ==
  { row \in [Range(keys) -> UNION { ColumnCells(k) : k \in Range(keys) }] :
      \A k \in Range(keys) : row[k] \in ColumnCells(k) }

\* A file: whether XLSX can read it and, if it can, the rows of its first
\* sheet, every row an object with the header's keys.
Unreadable == [readable |-> FALSE, keys |-> << >>, rows |-> << >>]

FilesWith(keys) ==
  { [readable |-> TRUE, keys |-> keys, rows |-> rows] :
      rows \in UNION { [1 .. n -> RowsOf(keys)] : n \in 0 .. MaxRows } }

Files == { Unreadable } \cup UNION { FilesWith(keys) : keys \in Headers }

\* processRawData tabulated over the readable files, so that the worker's
\* handler looks its result up.
Processed ==
  [file \in Files \ { Unreadable } |-> processRawData(file.keys, file.rows)]

\* The hash of each file's records, tabulated likewise.
Hashed == [file \in Files \ { Unreadable } |-> sha256Hex(Processed[file].records)]

SuccessMessage(data, hash) == [type |-> "SUCCESS", data |-> data, hash |-> hash]
ErrorMessage == [type |-> "ERROR"]

TwoReplies(file) ==
  IF file.readable
  THEN << SuccessMessage(Processed[file], Hashed[file]), ErrorMessage >>
  ELSE << ErrorMessage >>

\* self.onmessage for a PARSE message: the messages the handler posts. The
\* try block posts SUCCESS as its last statement; whatever throws before it
\* (reading or parsing the file) is answered by the catch block's ERROR.
WorkerReplies(file) ==
  IF file.readable
  THEN << SuccessMessage(Processed[file], Hashed[file]) >>
  ELSE << ErrorMessage >>

\* parseExcelFile(file): new Worker(...), handlers set, worker.postMessage(PARSE).
parseExcelFile(file) ==
  /\ wState = "idle"
  /\ wFile' = file
  /\ wState' = "loading"
  /\ wInbox' = 1
  /\ UNCHANGED << wOutbox, wErrorEvent, wPosted, wSettled, registryVars, verifyVars, serverVars >>

\* The worker handles the PARSE message.
WorkerOnMessage ==
  /\ wState = "loading"
  /\ wInbox > 0
  /\ wInbox' = wInbox - 1
  /\ \E replies \in { WorkerReplies(wFile) } :
       /\ wOutbox' = wOutbox \o replies
       /\ wPosted' = wPosted + Len(replies)
  /\ wState' = "handled"
  /\ UNCHANGED << wFile, wErrorEvent, wSettled, registryVars, verifyVars, serverVars,
                  uploadVars >>

\* The worker's script fails to load or to evaluate: no handler is ever
\* installed, the PARSE message is dropped and an error event is raised.
WorkerFails ==
  /\ wState = "loading"
  /\ wInbox > 0
  /\ wInbox' = 0
  /\ wErrorEvent' = TRUE
  /\ wState' = "dead"
  /\ UNCHANGED << wFile, wOutbox, wPosted, wSettled, registryVars, verifyVars, serverVars,
                  uploadVars >>

\* worker.onmessage on the main thread, then worker.terminate().
MainOnMessage ==
  /\ wState # "terminated"
  /\ wOutbox # << >>
  /\ LET msg == Head(wOutbox) IN
       wSettled' = Append(wSettled,
         IF msg.type = "SUCCESS"
         THEN [kind |-> "resolved", data |-> msg.data, hash |-> msg.hash]
         ELSE [kind |-> "rejected"])
  /\ wOutbox' = << >>
  /\ wState' = "terminated"
  /\ UNCHANGED << wFile, wInbox, wErrorEvent, wPosted, registryVars, verifyVars, serverVars,
                  uploadVars >>

\* worker.onerror on the main thread, then worker.terminate().
MainOnError ==
  /\ wState # "terminated"
  /\ wErrorEvent
  /\ wErrorEvent' = FALSE
  /\ wSettled' = Append(wSettled, [kind |-> "rejected"])
  /\ wOutbox' = << >>
  /\ wState' = "terminated"
  /\ UNCHANGED << wFile, wInbox, wPosted, registryVars, verifyVars, serverVars,
                  uploadVars >>

NextIngest ==
  \/ \E file \in Files : parseExcelFile(file) /\ UNCHANGED uploadVars
  \/ WorkerOnMessage
  \/ WorkerFails
  \/ MainOnMessage
  \/ MainOnError

SpecIngest == Init /\ [][NextIngest]_vars

\* The worker and the main thread's event loop keep running: a queued
\* message or event is eventually handled.
FairIngest ==
  SpecIngest /\ WF_vars(WorkerOnMessage \/ WorkerFails)
             /\ WF_vars(MainOnMessage) /\ WF_vars(MainOnError)

\* ------------------------------------------------- handleLocalFileUpload
AlwaysArchivable(year) == TRUE

\* [2023, 2024, 2025].includes(data.year)
Archivable(year) == year \in {2023, 2024, 2025}

\* setDatasetRegistry(prev => ({ ...prev, [data.year]: data }))
StoreLocal(prev, data) == RegistryInsert(prev, data.year, data)

\* handleLocalFileUpload(file) up to await parseExcelFile(file). One file is
\* followed per behaviour.
handleLocalFileUpload(file) ==
  /\ View(rendered) = "console"
  /\ uploadLocal = "idle"
  /\ uploadLocal' = "parsing"
  /\ parseExcelFile(file)
  /\ UNCHANGED << uploadCloud, uploadAsked, uploadRequests >>

\* handleLocalFileUpload after parseExcelFile resolved: the registry update,
\* the auto-selection (primaryYear is read from the closure of the render
\* that created the handler), then the confirm() prompt and, on OK,
\* handleCloudUpload up to await api.uploadDataset(...).
LocalFileParsed ==
  /\ uploadLocal = "parsing" /\ uploadCloud = "none"
  /\ wSettled # << >> /\ wSettled[1].kind = "resolved"
  /\ datasetRegistry' = StoreLocal(datasetRegistry, wSettled[1].data)
  /\ primaryYear' = IF rendered.primaryYear = NoYear THEN wSettled[1].data.year
                    ELSE primaryYear
  /\ IF Archivable(wSettled[1].data.year)
     THEN \E answer \in BOOLEAN :
            /\ uploadAsked' = IF answer THEN "yes" ELSE "no"
            /\ IF answer
               THEN /\ uploadCloud' = "uploading"
                    /\ uploadRequests' = Append(uploadRequests,
                                                [year |-> wSettled[1].data.year,
                                                 hash |-> wSettled[1].hash])
                    /\ UNCHANGED uploadLocal
               ELSE /\ uploadLocal' = "success"
                    /\ UNCHANGED << uploadCloud, uploadRequests >>
     ELSE /\ uploadLocal' = "success"
          /\ UNCHANGED << uploadAsked, uploadCloud, uploadRequests >>
  /\ lastCall' = NoCall
  /\ UNCHANGED << isAuthenticated, comparisonYear, loadingYears, inflightRequests,
                  rendered, outstanding, fetchCount, callers, openers, logoutPending,
                  lastOutcome, seen, peers, cleared, verifyVars, workerVars, serverVars >>

\* handleLocalFileUpload's catch block, parseExcelFile having rejected.
LocalFileRejected ==
  /\ uploadLocal = "parsing" /\ uploadCloud = "none"
  /\ wSettled # << >> /\ wSettled[1].kind = "rejected"
  /\ uploadLocal' = "error"
  /\ UNCHANGED << uploadCloud, uploadAsked, uploadRequests, registryVars, verifyVars, serverVars,
                  workerVars >>

\* handleCloudUpload after api.uploadDataset settled: it catches the error
\* itself, so handleLocalFileUpload goes on to the 'success' status.
CloudUploadDone(ok) ==
  /\ uploadCloud = "uploading"
  /\ uploadCloud' = IF ok THEN "success" ELSE "error"
  /\ uploadLocal' = "success"
  /\ UNCHANGED << uploadAsked, uploadRequests, registryVars, verifyVars, serverVars, workerVars >>

NextUpload ==
  \/ checkAuth
  \/ Render
  \/ \E file \in Files : handleLocalFileUpload(file)
  \/ WorkerOnMessage
  \/ WorkerFails
  \/ MainOnMessage
  \/ MainOnError
  \/ LocalFileParsed
  \/ LocalFileRejected
  \/ \E ok \in BOOLEAN : CloudUploadDone(ok)

SpecUpload == Init /\ [][NextUpload]_vars

\* ------------------------------------- remote loads and a local upload
\* Every writer of the registry, driven from the console: the cloud years'
\* buttons, the local file input, and logout.
\* The files offered to the file input here: every column and one row of a
\* positive duration, which is accepted unless its station is blank.
OneRowFiles ==
  { [readable |-> TRUE, keys |-> ColumnPool, rows |-> << row >>] :
      row \in { x \in RowsOf(ColumnPool) : x[ColumnPool[3]] = NumCell(2) } }

NextRegistry ==
  \/ Render
  \/ checkAuth
  \/ handleLogout
  \/ LogoutDone
  \/ \E year \in Years : LoadAndOpen(year)
  \/ \E year \in Years : FetchSucceed(year)
  \/ \E year \in Years : FetchFail(year)
  \/ \E file \in OneRowFiles : handleLocalFileUpload(file)
  \/ WorkerOnMessage
  \/ WorkerFails
  \/ MainOnMessage
  \/ MainOnError
  \/ LocalFileParsed
  \/ LocalFileRejected
  \/ \E ok \in BOOLEAN : CloudUploadDone(ok)

SpecRegistry == Init /\ [][NextRegistry]_vars

\* ------------------------------------------------ the finalize handler
\* meta = { years: {}, lastUpdated: '' }: no year has an entry.
NoYears == [y \in Years |-> None]

\* meta.years[year] = { status: 'active',
\*                      version: (meta.years[year]?.version || 0) + 1, hash }
Updated(years, year, hash) ==
  [years EXCEPT ![year] =
     [status |-> "active",
      version |-> (IF @ = None THEN 0 ELSE @.version) + 1,
      hash |-> hash]]

SavesUnconditionally(ifGenerationMatch, object) == TRUE

\* The precondition the bucket tests on save: generation 0 stands for an
\* object that does not exist.
GenerationMatches(ifGenerationMatch, object) ==
  ifGenerationMatch = (IF object = None THEN 0 ELSE object.generation)

\* The handler up to its first await: the validation, the audit log and the
\* first pass into the retry loop.
Finalize(r, year, hash) ==
  /\ handlers[r].pc \in { "idle", "done" }
  /\ \A q \in Requests : q < r => handlers[q].pc # "idle"
  /\ received < MaxRequests
  /\ received' = received + 1
  /\ handlers' = [handlers EXCEPT ![r] =
       IF year = NoYear \/ hash = 0
       THEN [IdleHandler EXCEPT !.pc = "done", !.response = "400"]
       ELSE [IdleHandler EXCEPT !.pc = "exists", !.year = year, !.hash = hash,
                                !.retries = Retries]]
  /\ UNCHANGED << metadataJson, registryVars, verifyVars, ingestVars >>

\* await metaFile.exists() resolved. Without the file the handler goes on to
\* the save, expecting generation 0.
Exists(r) ==
  /\ handlers[r].pc = "exists"
  /\ handlers' = [handlers EXCEPT ![r] =
       IF metadataJson # None
       THEN [@ EXCEPT !.pc = "download"]
       ELSE [@ EXCEPT !.pc = "save",
                      !.meta = [years |-> Updated(NoYears, handlers[r].year, handlers[r].hash)],
                      !.options = [ifGenerationMatch |-> 0]]]
  /\ UNCHANGED << metadataJson, received, registryVars, verifyVars, ingestVars >>

\* await metaFile.download() resolved with the content and its generation.
Download(r) ==
  /\ handlers[r].pc = "download"
  /\ handlers' = [handlers EXCEPT ![r] =
       [@ EXCEPT !.pc = "save",
                 !.meta = [years |-> Updated(metadataJson.years, handlers[r].year,
                                             handlers[r].hash)],
                 !.options = [ifGenerationMatch |-> metadataJson.generation]]]
  /\ UNCHANGED << metadataJson, received, registryVars, verifyVars, ingestVars >>

\* await metaFile.save(..., options) settled: the object is replaced and the
\* loop left, or the bucket answers 412 and the loop goes on while retries
\* are left. Either way the loop is followed by res.json({ success: true }).
Save(r) ==
  /\ handlers[r].pc = "save"
  /\ IF GenerationMatches(handlers[r].options.ifGenerationMatch, metadataJson)
     THEN /\ metadataJson' =
               [generation |-> (IF metadataJson = None THEN 0
                                ELSE metadataJson.generation) + 1,
                years |-> handlers[r].meta.years]
          /\ handlers' = [handlers EXCEPT ![r] =
               [IdleHandler EXCEPT !.pc = "done", !.retries = handlers[r].retries,
                                   !.saved = TRUE, !.response = "success"]]
     ELSE /\ UNCHANGED metadataJson
          /\ handlers' = [handlers EXCEPT ![r] =
               IF @.retries - 1 > 0
               THEN [@ EXCEPT !.pc = "exists", !.meta = None, !.options = None,
                              !.retries = @ - 1]
               ELSE [IdleHandler EXCEPT !.pc = "done", !.response = "success"]]
  /\ UNCHANGED << received, registryVars, verifyVars, ingestVars >>

\* A storage call rejects with an error other than 412, or the code after it
\* throws: the outer catch answers 500.
Throws(r) ==
  /\ handlers[r].pc \in { "exists", "download", "save" }
  /\ handlers' = [handlers EXCEPT ![r] =
       [IdleHandler EXCEPT !.pc = "done", !.response = "500"]]
  /\ UNCHANGED << metadataJson, received, registryVars, verifyVars, ingestVars >>

NextFinalize ==
  \/ \E r \in Requests, year \in Years \cup {NoYear} : Finalize(r, year, HashOf(r))
  \/ \E r \in Requests : Exists(r)
  \/ \E r \in Requests : Download(r)
  \/ \E r \in Requests : Save(r)
  \/ \E r \in Requests : Throws(r)

SpecFinalize == Init /\ [][NextFinalize]_vars

\* --------------------------------------------- processRawData on its own
\* The cells drawn for the rows handed to processRawData on its own: blank
\* and whitespace-only stations, missing and unreadable dates, zero and
\* negative durations.
ProcessCells(name) ==
  CASE name = ColumnPool[1] -> { Blank, TextCell(<< " " >>), TextCell(<< "A" >>) }
    [] name = ColumnPool[2] -> { Blank, TextCell(<< "x" >>), DateCell(2024, 1, 15) }
    [] name = ColumnPool[3] -> { NumCell(0), NumCell(0 - 1), NumCell(2) }
    [] name = ColumnPool[4] -> { NumCell(100) }
    [] name = ColumnPool[5] -> { TextCell(<< "X" >>) }

ProcessRows ==
  { ColumnPool[1] :> station @@ ColumnPool[2] :> date @@ ColumnPool[3] :> days
      @@ ColumnPool[4] :> charge @@ ColumnPool[5] :> group :
      station \in ProcessCells(ColumnPool[1]), date \in ProcessCells(ColumnPool[2]),
      days \in ProcessCells(ColumnPool[3]), charge \in ProcessCells(ColumnPool[4]),
      group \in ProcessCells(ColumnPool[5]) }

ProcessInputs ==
  { [keys |-> ColumnPool, rows |-> rows] :
      rows \in UNION { [1 .. n -> ProcessRows] : n \in 0 .. MaxRows } }

PureIdle == RegistryInit /\ IngestIdle /\ ServerIdle /\ vData = Dataset(NoYear, [z \in RecordYears |-> 0], 0)
            /\ vRequested = NoYear /\ vPassed = "unset" /\ callResult = None

InitProcess == PureIdle /\ callArgs \in ProcessInputs

\* processRawData(jsonData) is called.
RunProcess ==
  /\ callResult = None
  /\ callResult' = [value |-> processRawData(callArgs.keys, callArgs.rows)]
  /\ UNCHANGED << callArgs, vData, vRequested, vPassed, registryVars, ingestVars, serverVars >>

SpecProcess == InitProcess /\ [][RunProcess]_vars

\* ------------------------------------------------ the comparison engine
calcVarianceDividesAlways(p, c, pHasData, cHasData) ==
  IF ~cHasData THEN Null
  ELSE IF ~pHasData THEN Null
  ELSE Div(Sub(p, c), c)

\* calcVariance(p, c, pHasData, cHasData)
calcVariance(p, c, pHasData, cHasData) ==
  IF ~cHasData THEN Null
  ELSE IF c = Zero
       THEN IF pHasData /\ p = Zero THEN Zero ELSE Null
  ELSE IF ~pHasData THEN Null
  ELSE Div(Sub(p, c), c)

\* The amounts handed to calcVariance: whole and fractional, of both signs.
Amounts == { Num(n, d) : n \in (0 - MaxAmount) .. MaxAmount, d \in 1 .. MaxDenominator }

VarianceInputs == [p : Amounts, c : Amounts, pHasData : BOOLEAN, cHasData : BOOLEAN]

InitVariance == PureIdle /\ callArgs \in VarianceInputs

\* calcVariance(p, c, pHasData, cHasData) is called.
RunVariance ==
  /\ callResult = None
  /\ callResult' = [value |-> calcVariance(callArgs.p, callArgs.c, callArgs.pHasData,
                                           callArgs.cHasData)]
  /\ UNCHANGED << callArgs, vData, vRequested, vPassed, registryVars, ingestVars, serverVars >>

SpecVariance == InitVariance /\ [][RunVariance]_vars

MONTH_NAMES ==
  << << "J", "a", "n" >>, << "F", "e", "b" >>, << "M", "a", "r" >>, << "A", "p", "r" >>,
     << "M", "a", "y" >>, << "J", "u", "n" >>, << "J", "u", "l" >>, << "A", "u", "g" >>,
     << "S", "e", "p" >>, << "O", "c", "t" >>, << "N", "o", "v" >>, << "D", "e", "c" >> >>

\* The selection that switches a filter off.
All == << "A", "l", "l" >>

DateRanges == { "All", "1-10", "11-20", "21-End" }

\* { revenue: 0, days: 0, count: 0, rate: 0, hasData: false }
EmptyMetricSet ==
  [revenue |-> Zero, days |-> Zero, count |-> 0, rate |-> Zero, hasData |-> FALSE]

\* targetStationKey; null is written as the empty text, which line 37 treats
\* alike, both being falsy.
targetStationKey(selectedStation) ==
  IF selectedStation = All THEN << >> ELSE trim(toLowerCase(selectedStation))

\* The Set targetGroupKeys holds when 'All' is not among the selected groups.
targetGroupKeys(selectedGroups) == { trim(toLowerCase(g)) : g \in selectedGroups }

\* A variant whose second range starts at the 10th.
PassesFromTenth(r, selectedStation, selectedGroups, selectedDateRange) ==
  /\ ~(targetStationKey(selectedStation) # << >>
       /\ r.stationKey # targetStationKey(selectedStation))
  /\ ~(All \notin selectedGroups /\ r.groupKey \notin targetGroupKeys(selectedGroups))
  /\ ~(selectedDateRange = "1-10" /\ (r.day < 1 \/ r.day > 10))
  /\ ~(selectedDateRange = "11-20" /\ (r.day < 10 \/ r.day > 20))
  /\ ~(selectedDateRange = "21-End" /\ r.day < 21)

PassesAnyDay(r, selectedStation, selectedGroups, selectedDateRange) ==
  /\ ~(targetStationKey(selectedStation) # << >>
       /\ r.stationKey # targetStationKey(selectedStation))
  /\ ~(All \notin selectedGroups /\ r.groupKey \notin targetGroupKeys(selectedGroups))

\* The three filters of the forEach callback: TRUE when the record is not
\* returned from early.
Passes(r, selectedStation, selectedGroups, selectedDateRange) ==
  /\ ~(targetStationKey(selectedStation) # << >>
       /\ r.stationKey # targetStationKey(selectedStation))
  /\ ~(All \notin selectedGroups /\ r.groupKey \notin targetGroupKeys(selectedGroups))
  /\ ~(selectedDateRange = "1-10" /\ (r.day < 1 \/ r.day > 10))
  /\ ~(selectedDateRange = "11-20" /\ (r.day < 11 \/ r.day > 20))
  /\ ~(selectedDateRange = "21-End" /\ r.day < 21)

\* data.records.forEach(...) from the k-th record on, months being the
\* accumulators so far; date.getMonth() is the month less one.
RECURSIVE Aggregate(_, _, _, _, _, _)
Aggregate(records, k, months, selectedStation, selectedGroups, selectedDateRange) ==
  IF k > Len(records) THEN months
  ELSE Aggregate(records, k + 1,
         IF Passes(records[k], selectedStation, selectedGroups, selectedDateRange)
         THEN [months EXCEPT ![records[k].date.m - 1] =
                 [revenue |-> Add(@.revenue, records[k].charge),
                  days |-> Add(@.days, records[k].days),
                  count |-> @.count + 1,
                  rate |-> @.rate,
                  hasData |-> TRUE]]
         ELSE months,
         selectedStation, selectedGroups, selectedDateRange)

\* The loop that calculates the rates.
WithRates(months) ==
  [i \in DOMAIN months |->
     IF Lt(Zero, months[i].days)
     THEN [months[i] EXCEPT !.rate = Div(months[i].revenue, months[i].days)]
     ELSE months[i]]

processYearUnfiltered(data, selectedStation, selectedGroups, selectedDateRange) ==
  IF data = None THEN [i \in 0 .. 11 |-> EmptyMetricSet]
  ELSE WithRates(Aggregate(data.records, 1, [i \in 0 .. 11 |-> EmptyMetricSet],
                           All, {All}, "All"))

\* processYear(data); data is None where the Dataset is undefined.
processYear(data, selectedStation, selectedGroups, selectedDateRange) ==
  IF data = None THEN [i \in 0 .. 11 |-> EmptyMetricSet]
  ELSE WithRates(Aggregate(data.records, 1, [i \in 0 .. 11 |-> EmptyMetricSet],
                           selectedStation, selectedGroups, selectedDateRange))

\* The three variances of a primary and a comparison MetricSet.
VarianceSet(p, c) ==
  [revenue |-> calcVariance(p.revenue, c.revenue, p.hasData, c.hasData),
   days |-> calcVariance(p.days, c.days, p.hasData, c.hasData),
   rate |-> calcVariance(p.rate, c.rate, p.hasData, c.hasData)]

alignedMonthsAgainstPrimary(primaryMetrics, comparisonMetrics) ==
  [i \in DOMAIN MONTH_NAMES |->
     [monthIndex |-> i - 1,
      monthName |-> MONTH_NAMES[i],
      primary |-> primaryMetrics[i - 1],
      comparison |-> primaryMetrics[i - 1],
      variance |-> VarianceSet(primaryMetrics[i - 1], primaryMetrics[i - 1])]]

\* alignedMonths: MONTH_NAMES.map((name, i) => ...); the i-th entry of the
\* sequence is the month of index i - 1.
alignedMonths(primaryMetrics, comparisonMetrics) ==
  [i \in DOMAIN MONTH_NAMES |->
     [monthIndex |-> i - 1,
      monthName |-> MONTH_NAMES[i],
      primary |-> primaryMetrics[i - 1],
      comparison |-> comparisonMetrics[i - 1],
      variance |-> VarianceSet(primaryMetrics[i - 1], comparisonMetrics[i - 1])]]

\* Object.values(metrics).forEach(...) from month i on, acc being the
\* accumulator so far.
RECURSIVE SumFrom(_, _, _)
SumFrom(metrics, i, acc) ==
  IF i > 11 THEN acc
  ELSE SumFrom(metrics, i + 1,
         IF metrics[i].hasData
         THEN [revenue |-> Add(acc.revenue, metrics[i].revenue),
               days |-> Add(acc.days, metrics[i].days),
               count |-> acc.count + metrics[i].count,
               rate |-> acc.rate,
               hasData |-> TRUE]
         ELSE acc)

sumKeepsRate(metrics) == SumFrom(metrics, 0, EmptyMetricSet)

\* sum(metrics)
sum(metrics) ==
  LET acc == SumFrom(metrics, 0, EmptyMetricSet)
  IN IF Lt(Zero, acc.days) THEN [acc EXCEPT !.rate = Div(acc.revenue, acc.days)] ELSE acc

\* totals
totals(primaryMetrics, comparisonMetrics) ==
  [primary |-> sum(primaryMetrics),
   comparison |-> sum(comparisonMetrics),
   variance |-> VarianceSet(sum(primaryMetrics), sum(comparisonMetrics))]

\* useComparisonData(primaryData, comparisonData, selectedStation,
\* selectedGroups, selectedDateRange)
useComparisonData(primaryData, comparisonData, selectedStation, selectedGroups, selectedDateRange) ==
  LET primaryMetrics ==
        processYear(primaryData, selectedStation, selectedGroups, selectedDateRange)
      comparisonMetrics ==
        processYear(comparisonData, selectedStation, selectedGroups, selectedDateRange)
  IN [alignedMonths |-> alignedMonths(primaryMetrics, comparisonMetrics),
      totals |-> totals(primaryMetrics, comparisonMetrics)]

\* The rows the Datasets handed to the engine are ingested from: two
\* stations, two groups, days of the month on both sides of the range limits,
\* three months, a zero and a negative charge.
EngineRow(station, date, days, charge, group) ==
  ColumnPool[1] :> TextCell(station) @@ ColumnPool[2] :> date @@ ColumnPool[3] :> NumCell(days)
    @@ ColumnPool[4] :> NumCell(charge) @@ ColumnPool[5] :> TextCell(group)

EngineRows ==
  { EngineRow(<< "A" >>, DateCell(2024, 1, 10), 2, 100, << "X" >>),
    EngineRow(<< "A" >>, DateCell(2024, 1, 11), 1, 50, << "Y" >>),
    EngineRow(<< "B" >>, DateCell(2024, 2, 20), 3, 0, << "X" >>),
    EngineRow(<< "B" >>, DateCell(2024, 2, 21), 1, 0 - 10, << "Y" >>),
    EngineRow(<< "A" >>, DateCell(2024, 12, 1), 2, 7, << "X" >>) }

\* The Datasets processRawData makes of up to n such rows.
EngineDatasets(n) ==
  { processRawData(ColumnPool, rows) : rows \in UNION { [1 .. k -> EngineRows] : k \in 0 .. n } }

\* The primary Dataset has up to MaxRecords records, the comparison Dataset up
\* to one; either may be undefined.
EngineInputs ==
  [primaryData : {None} \cup EngineDatasets(MaxRecords),
   comparisonData : {None} \cup EngineDatasets(1),
   selectedStation : { All, << "A", " " >> },
   selectedGroups : { {All}, {<< "X" >>}, {} },
   selectedDateRange : DateRanges]

InitEngine == PureIdle /\ callArgs \in EngineInputs

\* The hook is evaluated.
RunEngine ==
  /\ callResult = None
  /\ callResult' = [value |-> useComparisonData(callArgs.primaryData, callArgs.comparisonData,
                                                callArgs.selectedStation,
                                                callArgs.selectedGroups,
                                                callArgs.selectedDateRange)]
  /\ UNCHANGED << callArgs, vData, vRequested, vPassed, registryVars, ingestVars, serverVars >>

SpecEngine == InitEngine /\ [][RunEngine]_vars

\* ------------------------------------- processYear under the four ranges
\* One Dataset and one station / group selection, for which the hook is
\* rendered once with each day-of-month range.
RangeInputs ==
  [data : EngineDatasets(MaxRecords),
   selectedStation : { All, << "A", " " >> },
   selectedGroups : { {All}, {<< "X" >>}, {} }]

InitRanges == PureIdle /\ callArgs \in RangeInputs

\* processYear(primaryData) of each of the four renders.
RunRanges ==
  /\ callResult = None
  /\ callResult' =
       [value |-> [range \in DateRanges |->
                     processYear(callArgs.data, callArgs.selectedStation,
                                 callArgs.selectedGroups, range)]]
  /\ UNCHANGED << callArgs, vData, vRequested, vPassed, registryVars, ingestVars, serverVars >>

SpecRanges == InitRanges /\ [][RunRanges]_vars

\* ------------------------------------------------ parseNumber on its own
\* The numerals: digits, dots and commas in any arrangement.
Numerals == UNION { [1 .. n -> { "0", "1", ".", "," }] : n \in 0 .. MaxChars }

\* What a numeral is written with around it: nothing, accounting
\* parentheses, parentheses with blanks outside, a currency sign before, a
\* currency code after.
Decorations == { "plain", "parentheses", "spaced", "currency", "code" }

Decorated(body, decoration) ==
  CASE decoration = "plain" -> body
    [] decoration = "parentheses" -> << "(" >> \o body \o << ")" >>
    [] decoration = "spaced" -> << " ", "(" >> \o body \o << ")", " " >>
    [] decoration = "currency" -> << "$" >> \o body
    [] decoration = "code" -> body \o << " ", "E", "U", "R" >>

NumberInputs == [body : Numerals, decoration : Decorations]

InitNumber == PureIdle /\ callArgs \in NumberInputs

\* parseNumber(val) is called on the text.
RunNumber ==
  /\ callResult = None
  /\ callResult' =
       [value |-> parseNumber(TextCell(Decorated(callArgs.body, callArgs.decoration)))]
  /\ UNCHANGED << callArgs, vData, vRequested, vPassed, registryVars, ingestVars, serverVars >>

SpecNumber == InitNumber /\ [][RunNumber]_vars

\* --------------------------------------------------- parseDate on its own
\* The texts handed to parseDate: day, separator, month, separator, year,
\* with days and months inside and outside the calendar, and words.
DayTexts ==
  { << "5" >>, << "0", "5" >>, << "2", "9" >>, << "3", "1" >>, << "0" >>, << "3", "2" >> }

MonthTexts ==
  { << "3" >>, << "0", "3" >>, << "2" >>, << "1", "2" >>, << "1", "3" >>, << "0" >> }

YearTexts == { << "2", "0", "2", "4" >>, << "2", "0", "2", "3" >> }

NotADate == << "n", "o", "t", " ", "a", " ", "d", "a", "t", "e" >>

DateInputs ==
  [form : { "dmy" }, day : DayTexts, sep1 : DateSeparators, month : MonthTexts,
   sep2 : DateSeparators, year : YearTexts]
    \cup [form : { "words" }, day : { << >> }, sep1 : { "/" }, month : { << >> },
          sep2 : { "/" }, year : { << >> }]

DateText(input) ==
  IF input.form = "words" THEN NotADate
  ELSE input.day \o << input.sep1 >> \o input.month \o << input.sep2 >> \o input.year

InitDate == PureIdle /\ callArgs \in DateInputs

\* parseDate(val) is called on the text.
RunDate ==
  /\ callResult = None
  /\ callResult' = [value |-> parseDate(TextCell(DateText(callArgs)))]
  /\ UNCHANGED << callArgs, vData, vRequested, vPassed, registryVars, ingestVars, serverVars >>

SpecDate == InitDate /\ [][RunDate]_vars

\* ------------------------------------------- column resolution on its own
\* The column names a first row is made of: a name in capitals with blanks
\* around it, names that hold another field's candidate, and names that
\* match an earlier and a later candidate of one field.
HeaderNames ==
  { << " ", "S", "T", "A", "T", "I", "O", "N", " " >>,
    << "D", "a", "t", "e" >>,
    << "C", "h", "e", "c", "k", "-", "o", "u", "t", " ", "D", "a", "t", "e" >>,
    << "D", "a", "y", "s" >>,
    << "C", "h", "a", "r", "g", "e" >>,
    << "R", "e", "n", "t", "a", "l", " ", "C", "h", "a", "r", "g", "e" >>,
    << "C", "h", "a", "r", "g", "e", "d", " ", "G", "r", "o", "u", "p" >>,
    << "G", "r", "o", "u", "p" >> }

\* The first rows: up to MaxColumns different names in any order.
HeaderRows ==
  { keys \in UNION { [1 .. n -> HeaderNames] : n \in 0 .. MaxColumns } :
      \A i, j \in DOMAIN keys : i # j => keys[i] # keys[j] }

InitColumns == PureIdle /\ callArgs \in [keys : HeaderRows]

\* The five findColumnKey calls of processRawData on the first row.
ResolveColumns ==
  /\ callResult = None
  /\ callResult' =
       [value |-> [stationKey |-> findColumnKey(callArgs.keys, StationCandidates),
                   dateKey |-> findColumnKey(callArgs.keys, DateCandidates),
                   daysKey |-> findColumnKey(callArgs.keys, DaysCandidates),
                   chargeKey |-> findColumnKey(callArgs.keys, ChargeCandidates),
                   groupKey |-> findColumnKey(callArgs.keys, GroupCandidates)]]
  /\ UNCHANGED << callArgs, vData, vRequested, vPassed, registryVars, ingestVars, serverVars >>

SpecColumns == InitColumns /\ [][ResolveColumns]_vars

\* ------------------------------------------------ two ingestions compared
HashRow(station, date, charge) ==
  ColumnPool[1] :> station @@ ColumnPool[2] :> date @@ ColumnPool[3] :> NumCell(1)
    @@ ColumnPool[4] :> charge @@ ColumnPool[5] :> TextCell(<< "X" >>)

\* The rows of the sheets compared: a row, the same row written otherwise
\* (a blank before the station, the charge as text), rows of another charge
\* and another date, a station with a quote in it and a decimal charge, and
\* a row without a station.
HashRows ==
  { HashRow(TextCell(<< "A" >>), DateCell(2024, 1, 15), NumCell(100)),
    HashRow(TextCell(<< " ", "A" >>), DateCell(2024, 1, 15), TextCell(<< "1", "0", "0" >>)),
    HashRow(TextCell(<< "A" >>), DateCell(2024, 1, 15), NumCell(101)),
    HashRow(TextCell(<< "A" >>), DateCell(2024, 1, 16), NumCell(100)),
    HashRow(TextCell(<< "A", "\"" >>), DateCell(2024, 1, 15), TextCell(<< "1", ",", "5" >>)),
    HashRow(Blank, DateCell(2024, 1, 15), NumCell(100)) }

HashSheets == UNION { [1 .. n -> HashRows] : n \in 0 .. 2 }

InitHash == PureIdle /\ callArgs \in [first : HashSheets, second : HashSheets]

\* Two sheets are ingested, each as self.onmessage does it: processRawData,
\* then the hash of the records.
RunHash ==
  /\ callResult = None
  /\ callResult' =
       [value |->
          [first |-> [records |-> processRawData(ColumnPool, callArgs.first).records,
                      hash |-> sha256Hex(processRawData(ColumnPool, callArgs.first).records)],
           second |-> [records |-> processRawData(ColumnPool, callArgs.second).records,
                       hash |-> sha256Hex(processRawData(ColumnPool, callArgs.second).records)]]]
  /\ UNCHANGED << callArgs, vData, vRequested, vPassed, registryVars, ingestVars, serverVars >>

SpecHash == InitHash /\ [][RunHash]_vars

\* ------------------------------------------------- the verifier on its own
VerifyInputs ==
  { Dataset(y, c, u) : y \in RecordYears, c \in [RecordYears -> 0 .. MaxCount],
                       u \in 0 .. MaxUndated }

\* loadYear is the verifier's only caller: requestedYear is the year asked of
\* api.fetchYearData, which is the year field of the Dataset it returns.
InitVerify ==
  /\ RegistryInit
  /\ IngestIdle
  /\ ServerIdle
  /\ vData \in VerifyInputs
  /\ vRequested \in RecordYears
  /\ vRequested = vData.year
  /\ vPassed = "unset"
  /\ callArgs = None
  /\ callResult = None

\* verifyYearMode(data, requestedYear) is called.
RunVerify ==
  /\ vPassed = "unset"
  /\ vPassed' = IF verifyYearMode(vData, vRequested) THEN "pass" ELSE "warn"
  /\ UNCHANGED << vData, vRequested, callVars, registryVars, ingestVars, serverVars >>

NextVerify == RunVerify

SpecVerify == InitVerify /\ [][NextVerify]_vars

TypeOK ==
  /\ isAuthenticated \in BOOLEAN
  /\ primaryYear \in Years \cup {NoYear, 2022}
  /\ comparisonYear \in Years \cup {NoYear}
  /\ loadingYears \subseteq Years
  /\ inflightRequests \subseteq Years
  /\ fetchCount \in 0 .. MaxFetches

Loaded == {"ok", "warned"}

\* ------------------------------------------------------------------ claims

\* C1: for every year at most one api.fetchYearData call is outstanding at
\* any time, and a loadYear(y) made while y is in flight starts no fetch and
\* is handed the pending promise.
C1_AtMostOneFetchPerYear ==
  [][ /\ \A y \in Years : outstanding'[y] <= 1
      /\ \A y \in Years :
           (y \in inflightRequests /\ lastCall'.year = y)
             => (lastCall'.how = "joined" /\ fetchCount' = fetchCount
                 /\ callers'[y] = callers[y] + 1) ]_vars

\* A second loadYear(y) was collapsed into the fetch already outstanding.
C1_Witness ==
  \E y \in Years : lastCall.year = y /\ lastCall.how = "joined"
                   /\ outstanding[y] = 1 /\ callers[y] = 2

\* C2: once the registry holds a Dataset for y, no loadYear(y) call starts a
\* remote fetch.
C2_NoFetchOnceStored ==
  ~(lastCall.how = "started" /\ lastCall.stored)

\* C3: the callers collapsed into one fetch observe the same outcome, the
\* resolved load when the fetch succeeded and the failure when it failed.
C3_CallersObserveOutcome ==
  \A y \in Years :
    (seen[y] # None /\ seen[y].callers >= 2) =>
      /\ lastOutcome[y] \in Loaded => seen[y].settled = "fulfilled"
      /\ lastOutcome[y] = "failed" => seen[y].settled = "rejected"

\* C4: a failed fetch leaves the registry exactly as it was.
C4_FailedFetchLeavesRegistry ==
  [][ \A y \in Years :
        (lastOutcome[y] = "pending" /\ lastOutcome'[y] = "failed")
          => datasetRegistry' = datasetRegistry ]_vars

\* A fetch failed while another year was cached: nothing was written for the
\* failed year and the cached year is still there.
C4_Witness ==
  \E y, z \in Years :
    /\ y # z /\ lastOutcome[y] = "failed"
    /\ datasetRegistry[y] = None /\ datasetRegistry[z] # None

\* C5: every started load eventually clears its in-flight marker, and a
\* loadYear(y) made after y's load failed starts a new remote fetch.
C5_MarkerClearedAndRetry ==
  /\ \A y \in Years : (y \in inflightRequests) ~> (y \notin inflightRequests)
  /\ [][ \A y \in Years :
           (lastOutcome[y] = "failed" /\ lastCall'.year = y)
             => (lastCall'.how = "started" /\ outstanding'[y] = 1) ]_vars

\* A load failed, its marker is gone, and the retry has started a new fetch.
C5_Witness ==
  \E y \in Years : lastCall.year = y /\ lastCall.after = "failed"
                   /\ lastCall.how = "started" /\ y \in inflightRequests

\* C6: loads of two different years overlap freely: the second starts while
\* the first is in flight, a completion writes only its own year's entry,
\* and after both succeeded the registry holds both.
C6_YearsIndependent ==
  [][ \A y1, y2 \in Years : y1 # y2 =>
        /\ (lastOutcome[y1] = "pending" /\ lastOutcome'[y1] \in Loaded)
             => (datasetRegistry'[y1] # None
                 /\ datasetRegistry'[y2] = datasetRegistry[y2])
        /\ (y1 \in peers'[y2] /\ lastOutcome'[y1] \in Loaded
            /\ lastOutcome'[y2] \in Loaded)
             => (datasetRegistry'[y1] # None /\ datasetRegistry'[y2] # None) ]_vars

\* Two years were in flight together and both are now in the registry.
C6_Witness ==
  \E y1, y2 \in Years :
    /\ y1 # y2 /\ y1 \in peers[y2]
    /\ lastOutcome[y1] \in Loaded /\ lastOutcome[y2] \in Loaded
    /\ datasetRegistry[y1] # None /\ datasetRegistry[y2] # None

\* C7: the fetched Dataset is stored under its year whether the verifier
\* passes or warns.
C7_MismatchIsNotFatal ==
  [][ \A y \in Years :
        (lastOutcome[y] = "pending" /\ lastOutcome'[y] \in Loaded) =>
          /\ datasetRegistry'[y] \in fetchYearData(y)
          /\ (lastOutcome'[y] = "warned") = ~verifyYearMode(datasetRegistry'[y], y) ]_vars

\* A Dataset whose records are mostly of another year sits in the registry.
C7_Witness ==
  \E y \in Years :
    /\ lastOutcome[y] = "warned" /\ datasetRegistry[y] # None
    /\ ~verifyYearMode(datasetRegistry[y], y)

\* Years no other year is more frequent than, among the dated records.
MostFrequent(data) ==
  { z \in DOMAIN data.counts : \A w \in DOMAIN data.counts : data.counts[z] >= data.counts[w] }

\* C8 as stated: the verifier passes exactly when fewer than 10 records are
\* dated or requestedYear is the most frequent year of the dated records.
C8_PassIffMostFrequent ==
  vPassed # "unset" =>
    ((vPassed = "pass") <=>
       (ValidCount(vData) < MinValid \/ vRequested \in MostFrequent(vData)))

\* C8 amended: with 10 or more dated records the verifier passes exactly
\* when requestedYear is the earliest of the most frequent years.
C8_PassIffEarliestMostFrequent ==
  vPassed # "unset" =>
    ((vPassed = "pass") <=>
       \/ ValidCount(vData) < MinValid
       \/ /\ vRequested \in MostFrequent(vData)
          /\ \A z \in MostFrequent(vData) : vRequested <= z)

\* The verifier was applied to 10 or more dated records whose most frequent
\* year is shared by two years, and warned about the later of them.
C8_Witness ==
  /\ vPassed = "warn"
  /\ ValidCount(vData) >= MinValid
  /\ Cardinality(MostFrequent(vData)) = 2
  /\ vRequested \in MostFrequent(vData)

\* Some required column (station, date, duration, charge) is unresolved.
MissingRequired(keys) ==
  \/ findColumnKey(keys, StationCandidates) = NoKey
  \/ findColumnKey(keys, DateCandidates) = NoKey
  \/ findColumnKey(keys, DaysCandidates) = NoKey
  \/ findColumnKey(keys, ChargeCandidates) = NoKey

\* C9 as stated: for every ingest(file) the worker posts exactly one message,
\* after the dispatch, the promise is settled exactly once and the worker
\* is terminated afterwards.
C9_ExactlyOneMessage ==
  /\ wPosted <= 1
  /\ wPosted = 1 => wState # "idle"
  /\ Len(wSettled) <= 1
  /\ Len(wSettled) = 1 <=> wState = "terminated"
  /\ wState = "terminated" => wPosted = 1

\* C9 amended: the worker posts at most one message, after the dispatch, and
\* exactly one unless it failed before handling the request; the promise is
\* settled exactly once, by that message or by the worker's error event, the
\* worker is terminated with it, and every dispatched request gets there.
C9_OneTerminalResult ==
  /\ [](/\ wPosted <= 1
        /\ wPosted = 1 => wState \in {"handled", "terminated"}
        /\ Len(wSettled) <= 1
        /\ Len(wSettled) = 1 <=> wState = "terminated"
        /\ wState = "handled" => wPosted = 1
        /\ wState = "dead" => wPosted = 0
        /\ (wState = "terminated" /\ wPosted = 0) => wSettled[1].kind = "rejected")
  /\ (wState = "loading") ~> (wState = "terminated" /\ Len(wSettled) = 1)

\* A readable file was parsed and its one SUCCESS message resolved the promise.
C9_Witness ==
  /\ wState = "terminated" /\ wPosted = 1
  /\ wSettled = << [kind |-> "resolved",
                    data |-> processRawData(wFile.keys, wFile.rows),
                    hash |-> sha256Hex(processRawData(wFile.keys, wFile.rows).records)] >>
  /\ wSettled[1].data.totalRecords = MaxRows

\* C11: an ingestion that accepts zero records ends in the error status and
\* its Dataset is not inserted into the registry.
C11_ZeroRecordsIsFailure ==
  (uploadLocal \in {"success", "error"} /\ wFile.readable
   /\ Processed[wFile].totalRecords = 0)
    => /\ uploadLocal = "error"
       /\ \A k \in DOMAIN datasetRegistry : datasetRegistry[k] # Processed[wFile]

\* C12: every record processRawData produces has a non-empty station, a
\* valid date and days > 0; a row with a blank station, an unreadable date
\* or days <= 0 yields no record; totalRecords is the number of the rows
\* that have none of these defects.
C12_OnlyEligibleRows ==
  callResult # None =>
    LET out == callResult.value
        rows == callArgs.rows
        Defect(row) ==
          \/ row[ColumnPool[1]] \in { Blank, TextCell(<< " " >>) }
          \/ row[ColumnPool[2]].t # "date"
          \/ row[ColumnPool[3]].n <= 0
    IN /\ \A i \in DOMAIN out.records :
            /\ out.records[i].station # << >>
            /\ out.records[i].date.t = "date"
            /\ Lt(Zero, out.records[i].days)
       /\ \A j \in DOMAIN rows :
            Defect(rows[j]) <=> ~(\E i \in DOMAIN out.records : out.records[i].id = j - 1)
       /\ out.totalRecords = Cardinality({ j \in DOMAIN rows : ~Defect(rows[j]) })
       /\ out.totalRecords = Len(out.records)

\* Of two rows the first, with a zero duration, was skipped and the second
\* became the only record.
C12_Witness ==
  /\ callResult # None
  /\ Len(callArgs.rows) = 2
  /\ callArgs.rows[1][ColumnPool[3]] = NumCell(0)
  /\ callResult.value.totalRecords = 1
  /\ callResult.value.records[1].id = 1

\* C13: when at least one row is accepted, the year of the Dataset is the
\* calendar year of the first accepted record.
C13_YearOfFirstAccepted ==
  (callResult # None /\ callResult.value.records # << >>)
    => callResult.value.year = callResult.value.records[1].year

\* C14: api.uploadDataset is called only for a Dataset whose detected year is
\* 2023, 2024 or 2025 and after the user confirmed; otherwise no upload
\* request is made; either way the Dataset is inserted into the registry under
\* its detected year and no remote fetch is started.
C14_UploadOnlyOnOptIn ==
  [][ /\ uploadRequests' # uploadRequests =>
           /\ uploadRequests' = Append(uploadRequests,
                                       [year |-> wSettled[1].data.year,
                                        hash |-> wSettled[1].hash])
           /\ wSettled[1].data.year \in {2023, 2024, 2025}
           /\ uploadAsked' = "yes"
      /\ (uploadLocal = "parsing" /\ uploadCloud = "none"
          /\ (uploadLocal' = "success" \/ uploadCloud' = "uploading")) =>
           /\ datasetRegistry'[wSettled[1].data.year] = wSettled[1].data
           /\ fetchCount' = fetchCount /\ outstanding' = outstanding
           /\ inflightRequests' = inflightRequests
           /\ (wSettled[1].data.year \notin {2023, 2024, 2025} \/ uploadAsked' # "yes")
                => uploadRequests' = uploadRequests ]_vars

\* A file of 2024 was parsed, stored under 2024 and, the user having
\* confirmed, handed to api.uploadDataset; no fetch was made.
C14_Witness ==
  /\ uploadAsked = "yes" /\ Len(uploadRequests) = 1
  /\ uploadRequests[1].year = 2024
  /\ datasetRegistry[2024] = wSettled[1].data
  /\ fetchCount = 0

\* C10: when a required column cannot be resolved from the first row, the
\* ingestion fails: the caller's promise is rejected and no Dataset is produced.
C10_MissingColumnFails ==
  (wState = "terminated" /\ wFile.readable /\ Len(wFile.rows) > 0
   /\ MissingRequired(wFile.keys))
    => wSettled[1].kind = "rejected"

\* C15: calcVariance(p, c, pHasData, cHasData) is undefined when cHasData is
\* false; when c = 0 it is 0 if pHasData and p = 0 and undefined otherwise;
\* it is undefined when c # 0 and pHasData is false; otherwise it is the
\* finite number v with v * c = p - c. It is never the result of a division
\* by zero.
C15_VarianceCases ==
  callResult # None =>
    LET p == callArgs.p
        c == callArgs.c
        v == callResult.value
    IN /\ ~callArgs.cHasData => v = Null
       /\ (callArgs.cHasData /\ c.n = 0) =>
            v = IF callArgs.pHasData /\ p.n = 0 THEN [n |-> 0, d |-> 1] ELSE Null
       /\ (callArgs.cHasData /\ c.n # 0 /\ ~callArgs.pHasData) => v = Null
       /\ (callArgs.cHasData /\ c.n # 0 /\ callArgs.pHasData) =>
            /\ v # Null
            /\ v.d > 0
            /\ v.n * c.n * p.d = v.d * (p.n * c.d - c.n * p.d)
       /\ v # Null => v.d > 0

\* Both years have data and 1 against 2 gave -1/2.
C15_Witness ==
  /\ callResult # None
  /\ callArgs.pHasData /\ callArgs.cHasData
  /\ callArgs.p = [n |-> 1, d |-> 1]
  /\ callArgs.c = [n |-> 2, d |-> 1]
  /\ callResult.value = [n |-> 0 - 1, d |-> 2]

\* The records of a Dataset (none for an undefined one) that fall in month i
\* and that the selection in callArgs keeps: the station filter applies
\* unless 'All' is selected, the group filter unless 'All' is among the
\* selected groups, the day filter unless the range is 'All'.
Kept(data, i) ==
  IF data = None THEN {}
  ELSE { k \in DOMAIN data.records :
           /\ data.records[k].date.m = i + 1
           /\ \/ callArgs.selectedStation = All
              \/ data.records[k].stationKey = toLowerCase(trim(callArgs.selectedStation))
           /\ \/ All \in callArgs.selectedGroups
              \/ \E g \in callArgs.selectedGroups :
                   data.records[k].groupKey = toLowerCase(trim(g))
           /\ \/ callArgs.selectedDateRange = "All"
              \/ callArgs.selectedDateRange = "1-10" /\ data.records[k].day \in 1 .. 10
              \/ callArgs.selectedDateRange = "11-20" /\ data.records[k].day \in 11 .. 20
              \/ callArgs.selectedDateRange = "21-End" /\ data.records[k].day >= 21 }

\* The sum of the integers f[k] over the positions k.
RECURSIVE SumOver(_, _)
SumOver(f, positions) ==
  IF positions = {} THEN 0
  ELSE LET k == CHOOSE j \in positions : TRUE
       IN f[k] + SumOver(f, positions \ {k})

\* m is the MetricSet of the records of data at the given positions.
IsMetricOf(m, data, positions) ==
  /\ m.count = Cardinality(positions)
  /\ m.hasData = (positions # {})
  /\ m.revenue.d = 1 /\ m.days.d = 1
  /\ positions # {} =>
       /\ m.revenue.n = SumOver([k \in positions |-> data.records[k].charge.n], positions)
       /\ m.days.n = SumOver([k \in positions |-> data.records[k].days.n], positions)
  /\ positions = {} => m.revenue.n = 0 /\ m.days.n = 0
  /\ IF m.days.n > 0
     THEN m.rate.d > 0 /\ m.rate.n * m.days.n = m.revenue.n * m.rate.d
     ELSE m.rate = [n |-> 0, d |-> 1]

\* C16: for each month 0..11 and each of the two Datasets, revenue, days and
\* count are the sums over the records of that month that pass the station,
\* group and day-of-month filters, hasData holds iff there is such a record,
\* and rate is revenue / days when days > 0 and 0 otherwise.
C16_MonthlyMetrics ==
  callResult # None =>
    \A i \in 0 .. 11 :
      /\ IsMetricOf(callResult.value.alignedMonths[i + 1].primary,
                    callArgs.primaryData, Kept(callArgs.primaryData, i))
      /\ IsMetricOf(callResult.value.alignedMonths[i + 1].comparison,
                    callArgs.comparisonData, Kept(callArgs.comparisonData, i))

\* With the station 'A ' and the first ten days selected, of two January
\* records of station A the one of the 10th is counted and the one of the
\* 11th is not.
C16_Witness ==
  /\ callResult # None
  /\ callArgs.selectedStation = << "A", " " >>
  /\ callArgs.selectedDateRange = "1-10"
  /\ callArgs.selectedGroups = {All}
  /\ callArgs.primaryData # None
  /\ Len(callArgs.primaryData.records) = 2
  /\ callArgs.primaryData.records[1].day = 10
  /\ callArgs.primaryData.records[2].day = 11
  /\ callResult.value.alignedMonths[1].primary.count = 1
  /\ callResult.value.alignedMonths[1].primary.rate = [n |-> 50, d |-> 1]

\* v is what the variance of p against c is defined to be: none without a
\* comparison value, none against a comparison of 0 unless the primary value
\* is present and 0 (then 0), none without a primary value, and otherwise
\* the number v with v * c = p - c.
IsVarianceOf(v, p, c, pHasData, cHasData) ==
  IF ~cHasData THEN v = Null
  ELSE IF c.n = 0 THEN v = (IF pHasData /\ p.n = 0 THEN [n |-> 0, d |-> 1] ELSE Null)
  ELSE IF ~pHasData THEN v = Null
  ELSE v # Null /\ v.d > 0 /\ v.n * c.n * p.d = v.d * (p.n * c.d - c.n * p.d)

\* variance holds the three variances of the MetricSet p against c.
IsVarianceSetOf(variance, p, c) ==
  /\ IsVarianceOf(variance.revenue, p.revenue, c.revenue, p.hasData, c.hasData)
  /\ IsVarianceOf(variance.days, p.days, c.days, p.hasData, c.hasData)
  /\ IsVarianceOf(variance.rate, p.rate, c.rate, p.hasData, c.hasData)

\* total is the grand total of the twelve MetricSets in months.
IsTotalOf(total, months) ==
  LET with == { i \in 0 .. 11 : months[i].hasData }
  IN /\ total.hasData = (with # {})
     /\ total.count = SumOver([i \in with |-> months[i].count], with)
     /\ total.revenue = [n |-> SumOver([i \in with |-> months[i].revenue.n], with), d |-> 1]
     /\ total.days = [n |-> SumOver([i \in with |-> months[i].days.n], with), d |-> 1]
     /\ IF total.days.n > 0
        THEN total.rate.d > 0 /\ total.rate.n * total.days.n = total.revenue.n * total.rate.d
        ELSE total.rate = [n |-> 0, d |-> 1]

\* C17: the grand total of each side sums revenue, days and count over the
\* months that have data; it has data iff some month has; its rate is its
\* revenue / days when days > 0 and 0 otherwise, not a sum of monthly
\* rates; the totals' variance is the variance rule applied to the two grand
\* totals.
C17_GrandTotals ==
  callResult # None =>
    /\ IsTotalOf(callResult.value.totals.primary,
                 [i \in 0 .. 11 |-> callResult.value.alignedMonths[i + 1].primary])
    /\ IsTotalOf(callResult.value.totals.comparison,
                 [i \in 0 .. 11 |-> callResult.value.alignedMonths[i + 1].comparison])
    /\ IsVarianceSetOf(callResult.value.totals.variance, callResult.value.totals.primary,
                       callResult.value.totals.comparison)

\* January and February both have primary data with different rates, the
\* grand total counts both records, and against a comparison year with data
\* the revenue variance is defined.
C17_Witness ==
  /\ callResult # None
  /\ callResult.value.alignedMonths[1].primary.hasData
  /\ callResult.value.alignedMonths[2].primary.hasData
  /\ callResult.value.alignedMonths[1].primary.rate
       # callResult.value.alignedMonths[2].primary.rate
  /\ callResult.value.totals.primary.count = 2
  /\ callResult.value.totals.primary.rate.n > 0
  /\ callResult.value.totals.comparison.hasData
  /\ callResult.value.totals.variance.revenue # Null

\* The records of a Dataset that the selection in callArgs keeps, of all
\* months.
KeptOfYear(data) == UNION { Kept(data, i) : i \in 0 .. 11 }

\* total carries the sums over the raw records of data that the selection
\* keeps.
IsSumOfRecords(total, data) ==
  /\ total.count = Cardinality(KeptOfYear(data))
  /\ total.revenue =
       [n |-> SumOver([k \in KeptOfYear(data) |-> data.records[k].charge.n], KeptOfYear(data)),
        d |-> 1]
  /\ total.days =
       [n |-> SumOver([k \in KeptOfYear(data) |-> data.records[k].days.n], KeptOfYear(data)),
        d |-> 1]

\* C18: on each side the grand total's revenue, days and count equal the
\* sums taken directly over the raw record list of the Dataset, filtered by
\* the same station, group and day-of-month selection.
C18_TotalsMatchRecords ==
  callResult # None =>
    /\ IsSumOfRecords(callResult.value.totals.primary, callArgs.primaryData)
    /\ IsSumOfRecords(callResult.value.totals.comparison, callArgs.comparisonData)

\* Of two primary records of different months the group selection keeps
\* one, and the grand total is that record's charge and days.
C18_Witness ==
  /\ callResult # None
  /\ callArgs.primaryData # None
  /\ Len(callArgs.primaryData.records) = 2
  /\ callArgs.primaryData.records[1].date.m # callArgs.primaryData.records[2].date.m
  /\ callArgs.selectedGroups = {<< "X" >>}
  /\ KeptOfYear(callArgs.primaryData) = {2}
  /\ callResult.value.totals.primary.count = 1
  /\ callResult.value.totals.primary.revenue = callArgs.primaryData.records[2].charge
  /\ callResult.value.totals.primary.days = callArgs.primaryData.records[2].days

\* No variance at all.
NoVariance == [revenue |-> Null, days |-> Null, rate |-> Null]

\* A MetricSet of nothing.
NoMetrics ==
  [revenue |-> [n |-> 0, d |-> 1], days |-> [n |-> 0, d |-> 1], count |-> 0,
   rate |-> [n |-> 0, d |-> 1], hasData |-> FALSE]

\* The month abbreviations of the calendar, January first.
CalendarNames ==
  << << "J", "a", "n" >>, << "F", "e", "b" >>, << "M", "a", "r" >>, << "A", "p", "r" >>,
     << "M", "a", "y" >>, << "J", "u", "n" >>, << "J", "u", "l" >>, << "A", "u", "g" >>,
     << "S", "e", "p" >>, << "O", "c", "t" >>, << "N", "o", "v" >>, << "D", "e", "c" >> >>

\* C19: the result has exactly 12 AlignedMonth entries in calendar order,
\* with monthIndex 0..11 and the names Jan..Dec; when there is no comparison
\* Dataset every comparison MetricSet is all zero with hasData false and
\* every variance field is undefined, for each month and for the totals.
C19_TwelveMonths ==
  callResult # None =>
    /\ Len(callResult.value.alignedMonths) = 12
    /\ \A i \in 1 .. 12 :
         /\ callResult.value.alignedMonths[i].monthIndex = i - 1
         /\ callResult.value.alignedMonths[i].monthName = CalendarNames[i]
    /\ callArgs.comparisonData = None =>
         /\ \A i \in 1 .. 12 :
              /\ callResult.value.alignedMonths[i].comparison = NoMetrics
              /\ callResult.value.alignedMonths[i].variance = NoVariance
         /\ callResult.value.totals.comparison = NoMetrics
         /\ callResult.value.totals.variance = NoVariance

\* Without a comparison Dataset, January has primary data and no variance.
C19_Witness ==
  /\ callResult # None
  /\ callArgs.comparisonData = None
  /\ callResult.value.alignedMonths[1].primary.hasData
  /\ callResult.value.alignedMonths[1].primary.revenue.n > 0
  /\ callResult.value.alignedMonths[1].variance = NoVariance
  /\ callResult.value.totals.primary.hasData

\* How often ch occurs in str, and the digits of str in order.
Occurrences(str, ch) == Cardinality({ i \in DOMAIN str : str[i] = ch })

DigitsOf(str) == SelectSeq(str, LAMBDA ch : ch \in { "0", "1", "2", "3", "4", "5", "6", "7", "8", "9" })

\* The value of the digit run digits, read in base ten.
RECURSIVE BaseTen(_)
BaseTen(digits) ==
  IF digits = << >> THEN 0
  ELSE 10 * BaseTen(SubSeq(digits, 1, Len(digits) - 1))
       + (CHOOSE n \in 0 .. 9 : Digits(n) = << digits[Len(digits)] >>)

RECURSIVE TenTo(_)
TenTo(k) == IF k = 0 THEN 1 ELSE 10 * TenTo(k - 1)

\* x is the number written with the digits of before, a decimal point and
\* the digits of after; 0 when there is no digit at all.
IsDecimal(x, before, after) ==
  /\ x.d > 0
  /\ x.n * TenTo(Len(DigitsOf(after))) = BaseTen(DigitsOf(before) \o DigitsOf(after)) * x.d

\* x is what the stated precedence makes of a numeral of digits, dots and
\* at most one comma.
IsReadingOf(x, body) ==
  LET at(ch) == CHOOSE i \in DOMAIN body : body[i] = ch
  IN IF Occurrences(body, ",") = 1
     THEN IsDecimal(x, SubSeq(body, 1, at(",") - 1), SubSeq(body, at(",") + 1, Len(body)))
     ELSE IF Occurrences(body, ".") = 1 /\ Len(body) - at(".") # 3
          THEN IsDecimal(x, SubSeq(body, 1, at(".") - 1), SubSeq(body, at(".") + 1, Len(body)))
          ELSE IsDecimal(x, body, << >>)

\* C20: for a text made of digits, dots and commas, bare or with a currency
\* sign, a currency code or enclosing parentheses: with one comma the comma
\* is the decimal separator and all dots are removed; without a comma a
\* single dot followed by exactly 3 digits is removed, any other single dot
\* is the decimal point, and several dots are all removed; enclosing
\* parentheses negate the value; empty text and text without a digit yield
\* 0; in every case, also with several commas, the result is a finite
\* number.
C20_SeparatorPrecedence ==
  callResult # None =>
    /\ callResult.value.d > 0
    /\ Occurrences(callArgs.body, ",") <= 1 =>
         IsReadingOf(IF callArgs.decoration \in { "parentheses", "spaced" }
                     THEN [n |-> 0 - callResult.value.n, d |-> callResult.value.d]
                     ELSE callResult.value,
                     callArgs.body)

\* The numeral 1.010 in parentheses was read as -1010.
C20_Witness ==
  /\ callResult # None
  /\ callArgs.body = << "1", ".", "0", "1", "0" >>
  /\ callArgs.decoration = "parentheses"
  /\ callResult.value = [n |-> 0 - 1010, d |-> 1]

\* Day d of month m of year y is a date of the calendar.
IsRealDate(y, m, d) ==
  /\ m \in 1 .. 12
  /\ d >= 1
  /\ d <= (IF m = 2
           THEN (IF (y % 4 = 0 /\ y % 100 # 0) \/ y % 400 = 0 THEN 29 ELSE 28)
           ELSE IF m \in { 4, 6, 9, 11 } THEN 30 ELSE 31)

\* C21: parseDate on text D<sep>M<sep>YYYY with the separators / - . gives
\* the date with day-of-month D, month M and year YYYY; when D, M and YYYY
\* name no date of the calendar, and on words, it gives null and no other
\* date.
C21_DayMonthYear ==
  callResult # None =>
    IF callArgs.form = "dmy"
         /\ IsRealDate(BaseTen(callArgs.year), BaseTen(callArgs.month), BaseTen(callArgs.day))
    THEN callResult.value = [t |-> "date", y |-> BaseTen(callArgs.year),
                             m |-> BaseTen(callArgs.month), d |-> BaseTen(callArgs.day)]
    ELSE callResult.value = [t |-> "null"]

\* The column name key, in lower case and trimmed, is the candidate or holds
\* it.
Hit(key, candidate) ==
  \/ trim(toLowerCase(key)) = candidate
  \/ \E i \in 0 .. Len(trim(toLowerCase(key))) - Len(candidate) :
       SubSeq(trim(toLowerCase(key)), i + 1, i + Len(candidate)) = candidate

\* found is what the candidates, tried in list order, resolve to among the
\* columns keys: the first column in header order that the earliest
\* candidate with any hit hits, and nothing only when no candidate hits any
\* column.
IsResolutionOf(found, keys, candidates) ==
  IF \A c \in DOMAIN candidates : \A k \in DOMAIN keys : ~Hit(keys[k], candidates[c])
  THEN found = << >>
  ELSE \E c \in DOMAIN candidates :
         /\ \A d \in 1 .. c - 1 : \A k \in DOMAIN keys : ~Hit(keys[k], candidates[d])
         /\ \E i \in DOMAIN keys :
              /\ found = keys[i]
              /\ Hit(keys[i], candidates[c])
              /\ \A j \in 1 .. i - 1 : ~Hit(keys[j], candidates[c])

\* C22: for each logical field the column resolved is the first column in
\* header order that matches the first candidate, in list order, that any
\* column matches; a later candidate counts only when no column matches an
\* earlier one; the result is undefined only when no column matches any
\* candidate.
C22_CandidateOrder ==
  callResult # None =>
    /\ IsResolutionOf(callResult.value.stationKey, callArgs.keys, StationCandidates)
    /\ IsResolutionOf(callResult.value.dateKey, callArgs.keys, DateCandidates)
    /\ IsResolutionOf(callResult.value.daysKey, callArgs.keys, DaysCandidates)
    /\ IsResolutionOf(callResult.value.chargeKey, callArgs.keys, ChargeCandidates)
    /\ IsResolutionOf(callResult.value.groupKey, callArgs.keys, GroupCandidates)

\* With the columns Date and Check-out Date in this order the date column is
\* Check-out Date, found by the first candidate, and no duration column is
\* found.
C22_Witness ==
  /\ callResult # None
  /\ callArgs.keys = << << "D", "a", "t", "e" >>, << "C", "h", "e", "c", "k", "-", "o", "u", "t", " ", "D", "a", "t", "e" >> >>
  /\ callResult.value.dateKey = << "C", "h", "e", "c", "k", "-", "o", "u", "t", " ", "D", "a", "t", "e" >>
  /\ callResult.value.daysKey = << >>

\* C30: when the station, date, duration, charge and group columns are all
\* resolved from a first row, the five columns are pairwise different: no
\* column serves two logical fields.
C30_DistinctColumns ==
  (/\ callResult # None
   /\ \A field \in DOMAIN callResult.value : callResult.value[field] # << >>)
    => \A f, g \in DOMAIN callResult.value :
         f # g => callResult.value[f] # callResult.value[g]

\* C23: two ingestions that produce the same record sequence have the same
\* content hash, whatever the sheets looked like, and two ingestions whose
\* record sequences differ in any field of any record, or in length, have
\* different hashes.
C23_HashOfRecords ==
  callResult # None =>
    (callResult.value.first.hash = callResult.value.second.hash
       <=> callResult.value.first.records = callResult.value.second.records)

\* Two different sheets gave the same single record and the same hash.
C23_Witness ==
  /\ callResult # None
  /\ callArgs.first # callArgs.second
  /\ Len(callResult.value.first.records) = 1
  /\ callResult.value.first.records = callResult.value.second.records
  /\ callResult.value.first.hash = callResult.value.second.hash

\* C24: whenever the Dashboard is rendered, that is for a signed-in user with
\* a primary year set, the registry it is rendered with holds a Dataset for
\* the primary year.
C24_DashboardHasData ==
  (rendered.isAuthenticated /\ rendered.primaryYear # NoYear)
    => rendered.primaryYear \in rendered.registry


\* C25: once handleLogout has emptied the registry it stays empty for as long
\* as no fetch has been started since; a fetch that was in flight when the
\* user logged out inserts nothing afterwards.
C25_EmptyAfterLogout ==
  cleared => Cached(datasetRegistry) = {}


\* C26: every Dataset the registry holds is stored under its own year: the
\* entry under key y has year field y, whether a remote load or a local
\* upload put it there.
C26_KeyIsYear ==
  \A y \in DOMAIN datasetRegistry :
    datasetRegistry[y] # None => datasetRegistry[y].year = y

\* The registry holds a year loaded from the cloud next to the year of an
\* uploaded file.
C26_Witness ==
  /\ wSettled # << >> /\ wSettled[1].kind = "resolved"
  /\ \E y1, y2 \in DOMAIN datasetRegistry :
       /\ y1 # y2
       /\ datasetRegistry[y1] \in fetchYearData(y1)
       /\ datasetRegistry[y2] = wSettled[1].data


\* C27: the ranges 1-10, 11-20 and 21-End split what the range All counts:
\* for every Dataset, station / group selection and month, revenue, days and
\* count under All are the sums of those under the three ranges, so that no
\* record is counted under two ranges and none under no range.
C27_RangesPartition ==
  callResult # None =>
    LET of == callResult.value IN
    \A i \in 0 .. 11 :
      /\ of["All"][i].revenue =
           Add(Add(of["1-10"][i].revenue, of["11-20"][i].revenue), of["21-End"][i].revenue)
      /\ of["All"][i].days =
           Add(Add(of["1-10"][i].days, of["11-20"][i].days), of["21-End"][i].days)
      /\ of["All"][i].count =
           of["1-10"][i].count + of["11-20"][i].count + of["21-End"][i].count
      /\ of["All"][i].hasData =
           (of["1-10"][i].hasData \/ of["11-20"][i].hasData \/ of["21-End"][i].hasData)

\* One month holds a record of the 10th and one of the 11th, which fall on
\* the two sides of a range limit.
C27_Witness ==
  /\ callResult # None
  /\ callArgs.data # None
  /\ callResult.value["All"][0].count = 2
  /\ callResult.value["1-10"][0].count = 1
  /\ callResult.value["11-20"][0].count = 1


\* C28: a finalize request is answered { success: true } only if its handler
\* saved metadata.json with the request's hash under the request's year.
C28_SuccessMeansSaved ==
  \A r \in Requests : handlers[r].response = "success" => handlers[r].saved

\* C29: metadata.json loses no update under concurrent finalize requests:
\* every save that replaces the object was prepared from the generation it
\* replaces, raises the version of the request's year by exactly 1, records
\* the request's hash and keeps every other year's entry as it was.
C29_NoLostUpdate ==
  [][ metadataJson' # metadataJson =>
        \E r \in Requests :
          LET h == handlers[r]
              before == IF metadataJson = None THEN NoYears ELSE metadataJson.years
          IN
          /\ h.pc = "save" /\ handlers'[r].saved
          /\ h.options.ifGenerationMatch =
               (IF metadataJson = None THEN 0 ELSE metadataJson.generation)
          /\ metadataJson'.years[h.year].version =
               (IF before[h.year] = None THEN 0 ELSE before[h.year].version) + 1
          /\ metadataJson'.years[h.year].hash = h.hash
          /\ \A z \in Years \ {h.year} : metadataJson'.years[z] = before[z] ]_vars

\* A handler whose save collided has retried and saved, and both years have
\* an entry, one of them saved twice.
C29_Witness ==
  /\ metadataJson # None
  /\ \A z \in Years : metadataJson.years[z] # None
  /\ \E z \in Years : metadataJson.years[z].version = 2
  /\ \E r \in Requests : handlers[r].saved /\ handlers[r].retries < Retries

====
